---- MODULE Spec2Model ----
(***************************************************************************)
(* atriumn-issue-triage: the webhook server (src/index.js), the triage     *)
(* pipeline (src/pipeline.js), the decision engine (src/analyzer.js) and   *)
(* the repository policies (src/config.js).                                *)
(*                                                                         *)
(* Time is Date.now(), in milliseconds.  Confidence is a JavaScript number *)
(* in [0,1]; it is carried in millionths (0.85 is 850000), which keeps     *)
(* every comparison of the source exact.  Text is a sequence of tokens     *)
(* (words and line breaks); a pattern /a.*b/i is the sequence of its       *)
(* literal parts.                                                          *)
(***************************************************************************)
EXTENDS Integers, Sequences, FiniteSets, TLC

VARIABLES
    clock,       \* Date.now()
    processed,   \* index.js: the dedup Map, key -> timestamp
    metrics,     \* index.js: the in-memory counters
    deliveries,  \* one record per /webhook request handled: request, time, response
    tasks,       \* background processIssue tasks, by the delivery that started them
    decide       \* decision engine or pipeline under direct call: inputs and result

vars == <<clock, processed, metrics, deliveries, tasks, decide>>

----------------------------------------------------------------------------
(* Bounds *)

MaxDeliveries == 3   \* requests delivered to /webhook
MaxTasks == 2        \* background tasks started
StartTime == 1       \* Date.now() when the server starts: positive

----------------------------------------------------------------------------
(* src/config.js *)

NEWLINE == "\n"

\* String.prototype.toLowerCase on the tokens of the model
toLowerCase(tok) ==
    CASE tok = "Security" -> "security"
      [] tok = "SECURITY" -> "security"
      [] tok = "Database" -> "database"
      [] tok = "Migration" -> "migration"
      [] OTHER -> tok

\* /security/i, /credentials/i, /database.*migration/i, /breaking.*change/i
PatSecurity == <<"security">>
PatCredentials == <<"credentials">>

DefaultPatterns ==
    <<PatSecurity, PatCredentials, <<"database", "migration">>, <<"breaking", "change">> >>

RepoConfigEntry(autoSpawn, prio, dir, patterns) ==
    [enabled |-> TRUE, autoSpawnEnabled |-> autoSpawn, priority |-> prio,
     projectDir |-> dir, noAutoFixPatterns |-> patterns]

repoConfig ==
    ("idynic" :> RepoConfigEntry(TRUE, "high", "/home/jeff/projects/idynic", DefaultPatterns))
    @@ ("veriumn" :> RepoConfigEntry(TRUE, "high", "/home/jeff/projects/veriumn", DefaultPatterns))
    @@ ("ovrly" :> RepoConfigEntry(TRUE, "medium", "/home/jeff/projects/ovrly", DefaultPatterns))
    @@ ("tariff" :> RepoConfigEntry(TRUE, "medium", "/home/jeff/projects/tariff", DefaultPatterns))
    @@ ("atriumn-site" :> RepoConfigEntry(FALSE, "low", "/home/jeff/projects/atriumn-site",
                                        <<PatSecurity, PatCredentials>>))

DisabledDefault ==
    [enabled |-> FALSE, autoSpawnEnabled |-> FALSE, priority |-> "low",
     projectDir |-> "", noAutoFixPatterns |-> <<>>]

\* thresholds.autoSpawn = 0.85, thresholds.offerFix = 0.70, in millionths
thresholds == [autoSpawn |-> 850000, offerFix |-> 700000]

\* Some of the properties that the object literal repoConfig inherits from
\* Object.prototype; the value of each is a function, or the prototype
\* itself, which has none of the properties of a policy
InheritedNames == {"constructor", "__proto__", "toString"}
InheritedMember(name) == [inherited |-> name]

\* The lookup with a fallback that is enabled
getRepoConfig_DefaultEnabled(repoName) ==
    IF repoName \in DOMAIN repoConfig THEN repoConfig[repoName]
    ELSE IF repoName \in InheritedNames THEN InheritedMember(repoName)
    ELSE [DisabledDefault EXCEPT !.enabled = TRUE]

\* repoConfig[repoName] || { disabled defaults }: the property read follows
\* the prototype chain, and every value found there is truthy
getRepoConfig(repoName) ==
    IF repoName \in DOMAIN repoConfig THEN repoConfig[repoName]
    ELSE IF repoName \in InheritedNames THEN InheritedMember(repoName)
    ELSE DisabledDefault

\* obj.field read as a condition: a missing property is undefined, falsy
Truthy(obj, field) == field \in DOMAIN obj /\ obj[field]

\* RegExp.prototype.test for a case-insensitive pattern whose literal parts
\* are joined by ".*": the parts occur in order, and "." matches no line break
RegExpTest(pattern, text) ==
    \E pos \in [1..Len(pattern) -> 1..Len(text)] :
        /\ \A k \in 1..Len(pattern) : toLowerCase(text[pos[k]]) = pattern[k]
        /\ \A k \in 1..(Len(pattern) - 1) : pos[k] < pos[k + 1]
        /\ \A i \in 1..Len(text) :
               (pos[1] < i /\ i < pos[Len(pattern)]) => text[i] # NEWLINE

\* The template joins title and body by one space: a token boundary
TitleAndBody(issueTitle, issueBody) == issueTitle \o issueBody

matchesNoAutoFix(repoName, issueTitle, issueBody) ==
    LET config == getRepoConfig(repoName)
        text == TitleAndBody(issueTitle, issueBody)
    IN  \E i \in 1..Len(config.noAutoFixPatterns) :
            RegExpTest(config.noAutoFixPatterns[i], text)

----------------------------------------------------------------------------
(* src/analyzer.js: parsing and validating the provider's text *)

\* JSON values carry their kind: "str", "bool", "num", "arr", "null"
JStr(x) == [k |-> "str", v |-> <<x>>]
JBool(b) == [k |-> "bool", v |-> <<b>>]
JNum(n) == [k |-> "num", v |-> <<n>>]
JArr(a) == [k |-> "arr", v |-> a]
JNull == [k |-> "null", v |-> <<>>]

\* An array of strings
JStrings(strings) == [i \in 1..Len(strings) |-> JStr(strings[i])]

\* The tokens of a provider text: a code fence, white space (a line break,
\* which JSON allows around a value, or a no-break space, which only trim()
\* and \s take for white space), prose, or a JSON object
TokFence == [t |-> "fence", obj |-> <<>>]
TokFenceJson == [t |-> "fence-json", obj |-> <<>>]
TokNewline == [t |-> "\n", obj |-> <<>>]
TokNbsp == [t |-> "nbsp", obj |-> <<>>]
TokProse == [t |-> "prose", obj |-> <<>>]
TokObject(o) == [t |-> "object", obj |-> o]

RequiredFields ==
    <<"type", "severity", "autoFixable", "confidence", "reasoning",
      "acceptanceCriteria", "needsClarification", "ralphPrompt">>
validTypes == {"bug", "feature", "enhancement", "question", "docs", "chore"}
validSeverities == {"critical", "high", "medium", "low"}

\* The two replace() calls: an opening fence (with optional json tag) and the
\* white space after it, and a closing fence with the line break before it
\* and the white space after it
RECURSIVE DropLeading(_, _)
DropLeading(text, space) ==
    IF text # <<>> /\ Head(text) \in space THEN DropLeading(Tail(text), space) ELSE text

RECURSIVE DropTrailing(_, _)
DropTrailing(text, space) ==
    IF text # <<>> /\ text[Len(text)] \in space
    THEN DropTrailing(SubSeq(text, 1, Len(text) - 1), space)
    ELSE text

\* What trim() and \s remove, and what JSON.parse skips around a value
JsWhiteSpace == {TokNewline, TokNbsp}
JsonWhiteSpace == {TokNewline}

DropLeadingSpace(text) == DropLeading(text, JsWhiteSpace)
DropTrailingSpace(text) == DropTrailing(text, JsWhiteSpace)

\* text.trim()
Trim(text) == DropTrailingSpace(DropLeadingSpace(text))

\* Only a fence with the json tag taken for an opening fence
StripFences_JsonTagOnly(text) ==
    LET cleaned == Trim(text)
    IN  IF cleaned # <<>> /\ Head(cleaned).t = "fence-json"
        THEN LET opened == DropLeadingSpace(Tail(cleaned))
                 body == DropTrailingSpace(opened)
             IN  IF body # <<>> /\ body[Len(body)] = TokFence
                 THEN LET inner == SubSeq(body, 1, Len(body) - 1)
                      IN  IF inner # <<>> /\ inner[Len(inner)] = TokNewline
                          THEN SubSeq(inner, 1, Len(inner) - 1)
                          ELSE inner
                 ELSE opened
        ELSE cleaned

StripFences(text) ==
    LET cleaned == Trim(text)
    IN  IF cleaned # <<>> /\ Head(cleaned).t \in {"fence", "fence-json"}
        THEN LET opened == DropLeadingSpace(Tail(cleaned))
                 body == DropTrailingSpace(opened)
             IN  IF body # <<>> /\ body[Len(body)] = TokFence
                 THEN LET inner == SubSeq(body, 1, Len(body) - 1)
                      IN  IF inner # <<>> /\ inner[Len(inner)] = TokNewline
                          THEN SubSeq(inner, 1, Len(inner) - 1)
                          ELSE inner
                 ELSE opened
        ELSE cleaned

\* JSON.parse accepts JSON white space around one value; anything else throws
JsonParse(cleaned) ==
    LET core == DropTrailing(DropLeading(cleaned, JsonWhiteSpace), JsonWhiteSpace)
    IN  IF Len(core) = 1 /\ core[1].t = "object"
        THEN [ok |-> TRUE, value |-> core[1].obj]
        ELSE [ok |-> FALSE, value |-> <<>>]

Failure(msg) == [ok |-> FALSE, error |-> msg, value |-> <<>>]

\* The validation with the range of confidence left untested
ValidateAnalysis_NoRangeCheck(parsed) ==
    IF \E i \in 1..Len(RequiredFields) : RequiredFields[i] \notin DOMAIN parsed
        THEN Failure("Missing required field")
    ELSE IF ~(parsed["type"].k = "str" /\ parsed["type"].v[1] \in validTypes)
        THEN Failure("Invalid type")
    ELSE IF ~(parsed["severity"].k = "str" /\ parsed["severity"].v[1] \in validSeverities)
        THEN Failure("Invalid severity")
    ELSE IF parsed["autoFixable"].k # "bool"
        THEN Failure("autoFixable must be a boolean")
    ELSE IF parsed["confidence"].k # "num"
        THEN Failure("confidence must be a number between 0 and 1")
    ELSE IF parsed["acceptanceCriteria"].k # "arr"
        THEN Failure("acceptanceCriteria must be an array")
    ELSE IF parsed["needsClarification"].k # "arr"
        THEN Failure("needsClarification must be an array")
    ELSE [ok |-> TRUE, error |-> "",
          value |-> [type |-> parsed["type"].v[1],
                     severity |-> parsed["severity"].v[1],
                     autoFixable |-> parsed["autoFixable"].v[1],
                     confidence |-> parsed["confidence"].v[1],
                     reasoning |-> parsed["reasoning"],
                     acceptanceCriteria |-> parsed["acceptanceCriteria"].v,
                     needsClarification |-> parsed["needsClarification"].v,
                     ralphPrompt |-> parsed["ralphPrompt"]]]

ValidateAnalysis(parsed) ==
    IF \E i \in 1..Len(RequiredFields) : RequiredFields[i] \notin DOMAIN parsed
        THEN Failure("Missing required field")
    ELSE IF ~(parsed["type"].k = "str" /\ parsed["type"].v[1] \in validTypes)
        THEN Failure("Invalid type")
    ELSE IF ~(parsed["severity"].k = "str" /\ parsed["severity"].v[1] \in validSeverities)
        THEN Failure("Invalid severity")
    ELSE IF parsed["autoFixable"].k # "bool"
        THEN Failure("autoFixable must be a boolean")
    ELSE IF \/ parsed["confidence"].k # "num"
            \/ parsed["confidence"].v[1] < 0
            \/ parsed["confidence"].v[1] > 1000000
        THEN Failure("confidence must be a number between 0 and 1")
    ELSE IF parsed["acceptanceCriteria"].k # "arr"
        THEN Failure("acceptanceCriteria must be an array")
    ELSE IF parsed["needsClarification"].k # "arr"
        THEN Failure("needsClarification must be an array")
    ELSE [ok |-> TRUE, error |-> "",
          value |-> [type |-> parsed["type"].v[1],
                     severity |-> parsed["severity"].v[1],
                     autoFixable |-> parsed["autoFixable"].v[1],
                     confidence |-> parsed["confidence"].v[1],
                     reasoning |-> parsed["reasoning"],
                     acceptanceCriteria |-> parsed["acceptanceCriteria"].v,
                     needsClarification |-> parsed["needsClarification"].v,
                     ralphPrompt |-> parsed["ralphPrompt"]]]

parseAnalysisResult(text) ==
    LET parsed == JsonParse(StripFences(text))
    IN  IF ~parsed.ok THEN Failure("JSON") ELSE ValidateAnalysis(parsed.value)

\* messages.create either rejects or resolves with the text blocks joined
ProviderError == [ok |-> FALSE, text |-> <<>>]
ProviderText(text) == [ok |-> TRUE, text |-> text]

analyzeIssue(reply) ==
    IF ~reply.ok THEN Failure("provider") ELSE parseAnalysisResult(reply.text)

----------------------------------------------------------------------------
(* src/analyzer.js: the decision engine *)

TriageActions == {"auto-spawn", "offer-fix", "notify", "clarify"}

\* The fixability test placed before the clarification test
determineAction_FixableFirst(analysis, repo, issue, repoConf) ==
    IF ~analysis.autoFixable THEN "notify"
    ELSE IF Len(analysis.needsClarification) > 0 THEN "clarify"
    ELSE IF matchesNoAutoFix(repo, issue.title, issue.body) THEN "notify"
    ELSE IF ~repoConf.autoSpawnEnabled THEN "notify"
    ELSE IF analysis.confidence >= thresholds.autoSpawn THEN "auto-spawn"
    ELSE IF analysis.confidence >= thresholds.offerFix THEN "offer-fix"
    ELSE "notify"

\* Strict comparisons at the two thresholds
determineAction_StrictThresholds(analysis, repo, issue, repoConf) ==
    IF Len(analysis.needsClarification) > 0 THEN "clarify"
    ELSE IF ~analysis.autoFixable THEN "notify"
    ELSE IF matchesNoAutoFix(repo, issue.title, issue.body) THEN "notify"
    ELSE IF ~repoConf.autoSpawnEnabled THEN "notify"
    ELSE IF analysis.confidence > thresholds.autoSpawn THEN "auto-spawn"
    ELSE IF analysis.confidence > thresholds.offerFix THEN "offer-fix"
    ELSE "notify"

determineAction(analysis, repo, issue, repoConf) ==
    IF Len(analysis.needsClarification) > 0 THEN "clarify"
    ELSE IF ~analysis.autoFixable THEN "notify"
    ELSE IF matchesNoAutoFix(repo, issue.title, issue.body) THEN "notify"
    ELSE IF ~repoConf.autoSpawnEnabled THEN "notify"
    ELSE IF analysis.confidence >= thresholds.autoSpawn THEN "auto-spawn"
    ELSE IF analysis.confidence >= thresholds.offerFix THEN "offer-fix"
    ELSE "notify"

\* triageIssue: analyse, then decide; a failed analysis decides nothing
triageIssue(reply, issue, repo, repoConf) ==
    LET analysed == analyzeIssue(reply)
    IN  IF ~analysed.ok
        THEN [ok |-> FALSE, error |-> analysed.error, analysis |-> <<>>, action |-> "none"]
        ELSE [ok |-> TRUE, error |-> "", analysis |-> analysed.value,
              action |-> determineAction(analysed.value, repo, issue, repoConf)]

----------------------------------------------------------------------------
(* src/index.js: deduplication *)

DEDUP_TTL_MS == 24 * 60 * 60 * 1000

\* The key made of the repository name alone
DedupKey_RepoOnly(repo, number) == <<repo, 0>>

\* The Map key, the template of repo, "#" and number
DedupKey(repo, number) == <<repo, number>>

\* The duplicate test without the age test
isAlreadyProcessed_NoExpiry(map, repo, number, now) ==
    DedupKey(repo, number) \in DOMAIN map

\* processed.get(key) is undefined for a missing key, and "ts && ..." is
\* false for undefined and for 0
isAlreadyProcessed(map, repo, number, now) ==
    LET key == DedupKey(repo, number)
    IN  /\ key \in DOMAIN map
        /\ map[key] # 0
        /\ now - map[key] < DEDUP_TTL_MS

\* Recording left to the end of the background task
markProcessed_Deferred(map, repo, number, now) == map

markProcessed(map, repo, number, now) ==
    LET key == DedupKey(repo, number)
    IN  [k \in DOMAIN map \cup {key} |-> IF k = key THEN now ELSE map[k]]

\* The sweep deleting every entry, whatever its age
pruneProcessed_Everything(map, now) ==
    [k \in {} |-> map[k]]

\* The sweep deleting an entry of exactly the age of the window too
pruneProcessed_Inclusive(map, now) ==
    LET cutoff == now - DEDUP_TTL_MS
    IN  [k \in {j \in DOMAIN map : ~(map[j] <= cutoff)} |-> map[k]]

\* The sweep deleting nothing
pruneProcessed_KeepsAll(map, now) == map

pruneProcessed(map, now) ==
    LET cutoff == now - DEDUP_TTL_MS
    IN  [k \in {j \in DOMAIN map : ~(map[j] < cutoff)} |-> map[k]]

----------------------------------------------------------------------------
(* src/security.js *)

\* env.webhookSecret of the running server: configured (with none
\* configured verifyWebhookSignature throws and every request is answered 500)
WebhookSecret == "webhook-secret"

\* The value of a header, a string: its prefix before the digits, its
\* length, and what the digits after the prefix are
HeaderValue(prefix, length, rest) == [prefix |-> prefix, len |-> length, rest |-> rest]

\* A header that is not sent, or sent empty
NoSignature == HeaderValue("", 0, <<>>)

\* createHmac('sha256', secret).update(payload).digest('hex'): 64 digits
\* that the secret and the payload determine
HmacSha256Hex(secret, payload) == [len |-> 64, rest |-> <<secret, payload>>]

\* 'sha256=' + digest
Sign(secret, payload) ==
    LET digest == HmacSha256Hex(secret, payload)
    IN  HeaderValue("sha256=", 7 + digest.len, digest.rest)

\* request.rawBody: the payload, without the headers
RawBody(req) == [f \in DOMAIN req \ {"signature", "event"} |-> req[f]]

----------------------------------------------------------------------------
(* The requests and provider replies of the model *)

IssueEvent(action, repo, number, title, body) ==
    LET unsigned == [signature |-> NoSignature, event |-> "issues", action |-> action,
                     repo |-> repo, number |-> number, title |-> title, body |-> body]
    IN  [unsigned EXCEPT !.signature = Sign(WebhookSecret, RawBody(unsigned))]

\* The signature headers of the requests that do not carry their own HMAC:
\* none, the digest without the prefix, a short value, the HMAC under
\* another secret, and the HMAC of another body
ForgedSignatures(req) ==
    { NoSignature,
      HeaderValue("", 64, <<WebhookSecret, RawBody(req)>>),
      HeaderValue("sha256=", 14, <<"invalid">>),
      Sign("another-secret", RawBody(req)),
      Sign(WebhookSecret, [RawBody(req) EXCEPT !.number = @ + 1]) }

Requests ==
    { IssueEvent("opened", "idynic", 1, <<"Crash">>, <<"login">>),
      IssueEvent("opened", "idynic", 2, <<"Security">>, <<"login">>),
      IssueEvent("opened", "unknown-repo", 1, <<"Crash">>, <<>>) }
    \cup { [IssueEvent("opened", "idynic", 1, <<"Crash">>, <<"login">>) EXCEPT !.signature = sig] :
               sig \in ForgedSignatures(IssueEvent("opened", "idynic", 1, <<"Crash">>, <<"login">>)) }

AnalysisObject(autoFixable, confidence, questions, prompt) ==
    ("type" :> JStr("bug")) @@ ("severity" :> JStr("high"))
    @@ ("autoFixable" :> JBool(autoFixable)) @@ ("confidence" :> JNum(confidence))
    @@ ("reasoning" :> JStr("Clear root cause"))
    @@ ("acceptanceCriteria" :> JArr(JStrings(<<"Page loads">>)))
    @@ ("needsClarification" :> JArr(JStrings(questions))) @@ ("ralphPrompt" :> prompt)

ProviderReplies ==
    { ProviderError,
      ProviderText(<<TokProse>>),
      ProviderText(<<TokObject(AnalysisObject(TRUE, 950000, <<"Which page?">>, JNull))>>),
      ProviderText(<<TokFenceJson, TokNewline,
                     TokObject(AnalysisObject(TRUE, 850000, <<>>, JStr("Fix it"))),
                     TokNewline, TokFence>>),
      ProviderText(<<TokObject(AnalysisObject(TRUE, 700000, <<>>, JNull))>>),
      ProviderText(<<TokObject(AnalysisObject(FALSE, 900000, <<>>, JNull))>>) }

----------------------------------------------------------------------------
(* src/pipeline.js: processIssue, one step per await *)

Call(fn, action, questions) == [fn |-> fn, action |-> action, questions |-> questions]

\* The switch with "offer-fix" falling into the "auto-spawn" case
ExecuteAction_OfferSpawns(action) ==
    CASE action = "clarify" -> "postClarification"
      [] action \in {"auto-spawn", "offer-fix"} -> "spawnRalphForIssue"
      [] OTHER -> "notifyTriage"

\* Step 2: the switch on the action; the value is the call awaited next
ExecuteAction(action) ==
    CASE action = "clarify" -> "postClarification"
      [] action = "auto-spawn" -> "spawnRalphForIssue"
      [] OTHER -> "notifyTriage"

\* The call a task starts when it moves to await fn
StartCall(fn, task) ==
    CASE fn = "postClarification" -> Call(fn, "", task.analysis.needsClarification)
      [] fn = "spawnRalphForIssue" -> Call(fn, "", <<>>)
      [] fn = "notifyTriage" -> Call(fn, task.action, <<>>)

\* A failed triage caught inside the pipeline, which goes on to notify
OnRejected_TriageCaught(fn) == IF fn = "triageIssue" THEN "notifyTriage" ELSE "rejected"

\* A rejected await ends processIssue: the error propagates to the caller
OnRejected(fn) == "rejected"

\* The errors with which the collaborators of the pipeline reject
Thrown(fn) ==
    CASE fn = "postClarification" -> "GitHub API error"
      [] fn = "spawnRalphForIssue" -> "Ralph spawn failed"
      [] fn = "notifyTriage" -> "Notification failed"

\* The outcome of an awaited call, as the awaiting function sees it
Outcome(ok, err) == IF ok THEN "ok" ELSE err

NewTask(repo, number, issue, repoConf, now) ==
    [repo |-> repo, number |-> number, issue |-> issue, repoConf |-> repoConf,
     at |-> now, pc |-> "triageIssue", analysis |-> <<>>, action |-> "none",
     calls |-> <<Call("triageIssue", "", <<>>)>>, outcomes |-> <<>>, error |-> ""]

\* The await that follows a resolved await of fn
NextAwait(fn, action) ==
    CASE fn = "triageIssue" -> ExecuteAction(action)
      [] fn = "postClarification" -> "notifyTriage"
      [] fn = "spawnRalphForIssue" -> "notifyTriage"
      [] fn = "notifyTriage" -> "resolved"

----------------------------------------------------------------------------
(* src/index.js: metrics, the /webhook handler and the background task *)

InitialMetrics ==
    [issuesReceived |-> 0, issuesProcessed |-> 0, issuesSkipped |-> 0,
     autoSpawned |-> 0, clarificationsPosted |-> 0, errors |-> 0]

\* An offered fix counted as a spawn
CountProcessed_OfferCounted(m, action) ==
    [m EXCEPT !.clarificationsPosted = IF action = "clarify" THEN @ + 1 ELSE @,
              !.autoSpawned = IF action \in {"auto-spawn", "offer-fix"} THEN @ + 1 ELSE @,
              !.issuesProcessed = @ + 1]

\* A clarified event left out of issuesProcessed
CountProcessed_ClarifyUncounted(m, action) ==
    [m EXCEPT !.clarificationsPosted = IF action = "clarify" THEN @ + 1 ELSE @,
              !.autoSpawned = IF action = "auto-spawn" THEN @ + 1 ELSE @,
              !.issuesProcessed = IF action = "clarify" THEN @ ELSE @ + 1]

\* index.js processIssue after the pipeline resolved
CountProcessed(m, action) ==
    [m EXCEPT !.clarificationsPosted = IF action = "clarify" THEN @ + 1 ELSE @,
              !.autoSpawned = IF action = "auto-spawn" THEN @ + 1 ELSE @,
              !.issuesProcessed = @ + 1]

\* A .catch that also counts the event as processed
CountError_AlsoProcessed(m) == [m EXCEPT !.errors = @ + 1, !.issuesProcessed = @ + 1]

\* A rejected task counted as two errors
CountError_Twice(m) == [m EXCEPT !.errors = @ + 2]

\* the .catch of the handler
CountError(m) == [m EXCEPT !.errors = @ + 1]

\* Every signature with the prefix and the right length accepted
verifyWebhookSignature_LengthOnly(req) ==
    LET signature == req.signature
        expected == Sign(WebhookSecret, RawBody(req))
    IN  IF signature.len = 0 \/ signature.prefix # "sha256=" THEN FALSE
        ELSE expected.len = signature.len

\* security.js, on the raw body and the x-hub-signature-256 header
verifyWebhookSignature(req) ==
    LET signature == req.signature
        expected == Sign(WebhookSecret, RawBody(req))
    IN  IF signature.len = 0 \/ signature.prefix # "sha256=" THEN FALSE
        ELSE IF expected.len # signature.len THEN FALSE
        ELSE expected.rest = signature.rest

Reply(status, message) == [status |-> status, message |-> message]

\* The reply of the handler to an admitted event
Acknowledge == Reply(200, "Processing")

Delivered(req, now, reply, admitted) ==
    [repo |-> req.repo, number |-> req.number, at |-> now,
     status |-> reply.status, message |-> reply.message, admitted |-> admitted]

\* Date.now() is read by the duplicate test and by the recording only; a
\* request answered before them has no time of attempt
NotAttempted == 0

\* The handler recording the time of a duplicate too
Webhook_DuplicateRefreshes(req) ==
    /\ Len(deliveries) < MaxDeliveries
    /\ LET repoConf == getRepoConfig(req.repo)
           id == Len(deliveries) + 1
           Skip(reply, m, at) ==
               /\ deliveries' = Append(deliveries, Delivered(req, at, reply, FALSE))
               /\ metrics' = m
               /\ UNCHANGED <<processed, tasks>>
           received == [metrics EXCEPT !.issuesReceived = @ + 1]
           skipped == [received EXCEPT !.issuesSkipped = @ + 1]
       IN  IF ~verifyWebhookSignature(req)
               THEN Skip(Reply(401, "Invalid signature"), metrics, NotAttempted)
           ELSE IF req.event = "ping"
               THEN Skip(Reply(200, "pong"), metrics, NotAttempted)
           ELSE IF req.event # "issues"
               THEN Skip(Reply(200, "Ignoring event"), metrics, NotAttempted)
           ELSE IF req.action # "opened"
               THEN Skip(Reply(200, "Ignoring action"), metrics, NotAttempted)
           ELSE IF req.repo = "" \/ req.number = 0
               THEN Skip(Reply(400, "Malformed payload"), received, NotAttempted)
           ELSE IF ~Truthy(repoConf, "enabled")
               THEN Skip(Reply(200, "Repo not enabled"), skipped, NotAttempted)
           ELSE IF isAlreadyProcessed(processed, req.repo, req.number, clock)
               THEN /\ deliveries' = Append(deliveries,
                                             Delivered(req, clock, Reply(200, "Already processed"), FALSE))
                    /\ metrics' = skipped
                    /\ processed' = markProcessed(processed, req.repo, req.number, clock)
                    /\ UNCHANGED tasks
           ELSE /\ Cardinality(DOMAIN tasks) < MaxTasks
                /\ processed' = markProcessed(processed, req.repo, req.number, clock)
                /\ tasks' = tasks @@ (id :> NewTask(req.repo, req.number,
                                                    [title |-> req.title, body |-> req.body],
                                                    repoConf, clock))
                /\ deliveries' = Append(deliveries, Delivered(req, clock, Acknowledge, TRUE))
                /\ metrics' = received
    /\ UNCHANGED <<clock, decide>>

\* The handler counting a duplicate as received only
Webhook_DuplicateNotSkipped(req) ==
    /\ Len(deliveries) < MaxDeliveries
    /\ LET repoConf == getRepoConfig(req.repo)
           id == Len(deliveries) + 1
           Skip(reply, m, at) ==
               /\ deliveries' = Append(deliveries, Delivered(req, at, reply, FALSE))
               /\ metrics' = m
               /\ UNCHANGED <<processed, tasks>>
           received == [metrics EXCEPT !.issuesReceived = @ + 1]
           skipped == [received EXCEPT !.issuesSkipped = @ + 1]
       IN  IF ~verifyWebhookSignature(req)
               THEN Skip(Reply(401, "Invalid signature"), metrics, NotAttempted)
           ELSE IF req.event = "ping"
               THEN Skip(Reply(200, "pong"), metrics, NotAttempted)
           ELSE IF req.event # "issues"
               THEN Skip(Reply(200, "Ignoring event"), metrics, NotAttempted)
           ELSE IF req.action # "opened"
               THEN Skip(Reply(200, "Ignoring action"), metrics, NotAttempted)
           ELSE IF req.repo = "" \/ req.number = 0
               THEN Skip(Reply(400, "Malformed payload"), received, NotAttempted)
           ELSE IF ~Truthy(repoConf, "enabled")
               THEN Skip(Reply(200, "Repo not enabled"), skipped, NotAttempted)
           ELSE IF isAlreadyProcessed(processed, req.repo, req.number, clock)
               THEN Skip(Reply(200, "Already processed"), received, clock)
           ELSE /\ Cardinality(DOMAIN tasks) < MaxTasks
                /\ processed' = markProcessed(processed, req.repo, req.number, clock)
                /\ tasks' = tasks @@ (id :> NewTask(req.repo, req.number,
                                                    [title |-> req.title, body |-> req.body],
                                                    repoConf, clock))
                /\ deliveries' = Append(deliveries, Delivered(req, clock, Acknowledge, TRUE))
                /\ metrics' = received
    /\ UNCHANGED <<clock, decide>>

\* POST /webhook: the handler runs to its return without suspending; the
\* call of processIssue runs the pipeline up to its first await
Webhook(req) ==
    /\ Len(deliveries) < MaxDeliveries
    /\ LET repoConf == getRepoConfig(req.repo)
           id == Len(deliveries) + 1
           Skip(reply, m, at) ==
               /\ deliveries' = Append(deliveries, Delivered(req, at, reply, FALSE))
               /\ metrics' = m
               /\ UNCHANGED <<processed, tasks>>
           received == [metrics EXCEPT !.issuesReceived = @ + 1]
           skipped == [received EXCEPT !.issuesSkipped = @ + 1]
       IN  IF ~verifyWebhookSignature(req)
               THEN Skip(Reply(401, "Invalid signature"), metrics, NotAttempted)
           ELSE IF req.event = "ping"
               THEN Skip(Reply(200, "pong"), metrics, NotAttempted)
           ELSE IF req.event # "issues"
               THEN Skip(Reply(200, "Ignoring event"), metrics, NotAttempted)
           ELSE IF req.action # "opened"
               THEN Skip(Reply(200, "Ignoring action"), metrics, NotAttempted)
           ELSE IF req.repo = "" \/ req.number = 0
               THEN Skip(Reply(400, "Malformed payload"), received, NotAttempted)
           ELSE IF ~Truthy(repoConf, "enabled")
               THEN Skip(Reply(200, "Repo not enabled"), skipped, NotAttempted)
           ELSE IF isAlreadyProcessed(processed, req.repo, req.number, clock)
               THEN Skip(Reply(200, "Already processed"), skipped, clock)
           ELSE /\ Cardinality(DOMAIN tasks) < MaxTasks
                /\ processed' = markProcessed(processed, req.repo, req.number, clock)
                /\ tasks' = tasks @@ (id :> NewTask(req.repo, req.number,
                                                    [title |-> req.title, body |-> req.body],
                                                    repoConf, clock))
                /\ deliveries' = Append(deliveries, Delivered(req, clock, Acknowledge, TRUE))
                /\ metrics' = received
    /\ UNCHANGED <<clock, decide>>

\* The handler awaiting the task: a failure turns the reply into an error
Settle_ReplyAwaitsTask(id, fn, task, ok, err) ==
    LET next == IF ok THEN NextAwait(fn, task.action) ELSE OnRejected(fn)
        seen == [task EXCEPT !.outcomes = Append(@, Outcome(ok, err))]
    IN  /\ tasks' = [tasks EXCEPT ![id] =
                        CASE next = "rejected" -> [seen EXCEPT !.pc = next, !.error = err]
                          [] next = "resolved" -> [seen EXCEPT !.pc = next]
                          [] OTHER -> [seen EXCEPT !.pc = next,
                                                   !.calls = Append(@, StartCall(next, task))]]
        /\ metrics' = CASE next = "rejected" -> CountError(metrics)
                        [] next = "resolved" -> CountProcessed(metrics, task.action)
                        [] OTHER -> metrics
        /\ deliveries' = IF next = "rejected"
                         THEN [deliveries EXCEPT ![id].status = 500,
                                                 ![id].message = "Internal Server Error"]
                         ELSE deliveries
        /\ UNCHANGED <<clock, processed, decide>>

\* A failed notification swallowed by the pipeline, which then resolves
Settle_NotifyFailureSwallowed(id, fn, task, ok, err) ==
    LET next == IF ok \/ fn = "notifyTriage" THEN NextAwait(fn, task.action) ELSE OnRejected(fn)
        seen == [task EXCEPT !.outcomes = Append(@, Outcome(ok, err))]
    IN  /\ tasks' = [tasks EXCEPT ![id] =
                        CASE next = "rejected" -> [seen EXCEPT !.pc = next, !.error = err]
                          [] next = "resolved" -> [seen EXCEPT !.pc = next]
                          [] OTHER -> [seen EXCEPT !.pc = next,
                                                   !.calls = Append(@, StartCall(next, task))]]
        /\ metrics' = CASE next = "rejected" -> CountError(metrics)
                        [] next = "resolved" -> CountProcessed(metrics, task.action)
                        [] OTHER -> metrics
        /\ UNCHANGED <<clock, processed, deliveries, decide>>

\* A failed call made once more before the task gives up
Settle_RetryOnce(id, fn, task, ok, err) ==
    LET made == Cardinality({i \in 1..Len(task.calls) : task.calls[i].fn = fn})
        next == IF ok THEN NextAwait(fn, task.action)
                ELSE IF made < 2 THEN fn ELSE OnRejected(fn)
        seen == [task EXCEPT !.outcomes = Append(@, Outcome(ok, err))]
    IN  /\ tasks' = [tasks EXCEPT ![id] =
                        CASE next = "rejected" -> [seen EXCEPT !.pc = next, !.error = err]
                          [] next = "resolved" -> [seen EXCEPT !.pc = next]
                          [] next = fn -> [seen EXCEPT !.calls = Append(@, task.calls[Len(task.calls)])]
                          [] OTHER -> [seen EXCEPT !.pc = next,
                                                   !.calls = Append(@, StartCall(next, task))]]
        /\ metrics' = CASE next = "rejected" -> CountError(metrics)
                        [] next = "resolved" -> CountProcessed(metrics, task.action)
                        [] OTHER -> metrics
        /\ UNCHANGED <<clock, processed, deliveries, decide>>

\* A task leaves the await of fn: to the next await, or to its end, where
\* processIssue rejects with the error of the call or resolves
Settle(id, fn, task, ok, err) ==
    LET next == IF ok THEN NextAwait(fn, task.action) ELSE OnRejected(fn)
        seen == [task EXCEPT !.outcomes = Append(@, Outcome(ok, err))]
    IN  /\ tasks' = [tasks EXCEPT ![id] =
                        CASE next = "rejected" -> [seen EXCEPT !.pc = next, !.error = err]
                          [] next = "resolved" -> [seen EXCEPT !.pc = next]
                          [] OTHER -> [seen EXCEPT !.pc = next,
                                                   !.calls = Append(@, StartCall(next, task))]]
        /\ metrics' = CASE next = "rejected" -> CountError(metrics)
                        [] next = "resolved" -> CountProcessed(metrics, task.action)
                        [] OTHER -> metrics
        /\ UNCHANGED <<clock, processed, deliveries, decide>>

\* The provider answers (or fails) and triageIssue settles
TriageSettles(id, reply) ==
    /\ id \in DOMAIN tasks
    /\ tasks[id].pc = "triageIssue"
    /\ LET t == tasks[id]
           r == triageIssue(reply, t.issue, t.repo, t.repoConf)
       IN  Settle(id, "triageIssue", [t EXCEPT !.analysis = r.analysis, !.action = r.action],
                  r.ok, r.error)

\* postClarification or spawnRalphForIssue settles
ActionSettles(id, ok) ==
    /\ id \in DOMAIN tasks
    /\ tasks[id].pc \in {"postClarification", "spawnRalphForIssue"}
    /\ Settle(id, tasks[id].pc, tasks[id], ok, Thrown(tasks[id].pc))

\* notifyTriage settles; on success processIssue returns to index.js
NotifySettles(id, ok) ==
    /\ id \in DOMAIN tasks
    /\ tasks[id].pc = "notifyTriage"
    /\ Settle(id, "notifyTriage", tasks[id], ok, Thrown("notifyTriage"))

\* setInterval(pruneProcessed, one hour)
Prune ==
    /\ processed' = pruneProcessed(processed, clock)
    /\ UNCHANGED <<clock, metrics, deliveries, tasks, decide>>

\* The instants at which the model observes the clock: the start, and just
\* before and just after the end of the window of an admission made at the
\* start
Tick ==
    /\ \E t \in {StartTime + d : d \in {0, DEDUP_TTL_MS - 1, DEDUP_TTL_MS + 1}} :
           t > clock /\ clock' = t
    /\ UNCHANGED <<processed, metrics, deliveries, tasks, decide>>

----------------------------------------------------------------------------
(* src/index.js, the relay: issues are notified, /ralph comments spawn *)

MaxRelayDeliveries == 2   \* requests delivered to the relay's /webhook


\* The keys "issue:repo#number" and "ralph:repo#number"
IssueKey(repo, number) == <<"issue", repo, number>>

\* The /ralph key without its class, the key of the issue
RalphKey_SharedWithIssue(repo, number) == <<"issue", repo, number>>

RalphKey(repo, number) == <<"ralph", repo, number>>

\* "ts && ..." is false for a missing key and for a recorded time of 0
isDuplicate(map, key, now) ==
    /\ key \in DOMAIN map
    /\ map[key] # 0
    /\ now - map[key] < DEDUP_TTL_MS

\* markProcessed(key) of the relay
setProcessed(map, key, now) ==
    [k \in DOMAIN map \cup {key} |-> IF k = key THEN now ELSE map[k]]

\* Text by characters
RalphToken == <<"/", "r", "a", "l", "p", "h">>
WhiteSpace == {" ", NEWLINE}

RECURSIVE TrimStart(_)
TrimStart(text) ==
    IF text # <<>> /\ Head(text) \in WhiteSpace THEN TrimStart(Tail(text)) ELSE text

RECURSIVE TrimEnd(_)
TrimEnd(text) ==
    IF text # <<>> /\ text[Len(text)] \in WhiteSpace
    THEN TrimEnd(SubSeq(text, 1, Len(text) - 1))
    ELSE text

\* String.prototype.trim and String.prototype.startsWith
StringTrim(text) == TrimEnd(TrimStart(text))
startsWith(text, prefix) ==
    Len(text) >= Len(prefix) /\ SubSeq(text, 1, Len(prefix)) = prefix

\* The token looked for anywhere in the comment
IsRalphCommand_Anywhere(comment) ==
    \E i \in 1..Len(comment) : startsWith(SubSeq(comment, i, Len(comment)), RalphToken)

\* (comment?.body || '').trim().startsWith('/ralph')
IsRalphCommand(comment) == startsWith(StringTrim(comment), RalphToken)

RelayDelivered(req, now, reply, admitted) ==
    [event |-> req.event, action |-> req.action, repo |-> req.repo, number |-> req.number,
     comment |-> req.comment, at |-> now,
     status |-> reply.status, message |-> reply.message, admitted |-> admitted]

RelayTask(kind, repo, number, fn) ==
    [kind |-> kind, repo |-> repo, number |-> number, pc |-> fn, calls |-> <<fn>>]

\* The reply of a handler that starts nothing
RelaySkip(req, reply, m, at) ==
    /\ deliveries' = Append(deliveries, RelayDelivered(req, at, reply, FALSE))
    /\ metrics' = m
    /\ UNCHANGED <<processed, tasks>>

\* The reply of a handler that recorded the key and started fn
RelayAdmit(req, reply, m, key, kind, fn) ==
    /\ Cardinality(DOMAIN tasks) < MaxTasks
    /\ processed' = setProcessed(processed, key, clock)
    /\ tasks' = tasks @@ ((Len(deliveries) + 1) :> RelayTask(kind, req.repo, req.number, fn))
    /\ deliveries' = Append(deliveries, RelayDelivered(req, clock, reply, TRUE))
    /\ metrics' = m

\* The handler without the test of the name and the number
handleNewIssue_NoValidation(req) ==
    LET received == [metrics EXCEPT !.issuesReceived = @ + 1]
        skipped == [received EXCEPT !.issuesSkipped = @ + 1]
        dedupKey == IssueKey(req.repo, req.number)
    IN  IF req.action # "opened"
            THEN RelaySkip(req, Reply(200, "Ignoring action"), metrics, NotAttempted)
        ELSE IF ~Truthy(getRepoConfig(req.repo), "enabled")
            THEN RelaySkip(req, Reply(200, "Repo not enabled"), skipped, NotAttempted)
        ELSE IF isDuplicate(processed, dedupKey, clock)
            THEN RelaySkip(req, Reply(200, "Already processed"), skipped, clock)
        ELSE RelayAdmit(req, Reply(200, "Notified"), received, dedupKey, "issue", "notifyNewIssue")

handleNewIssue(req) ==
    LET received == [metrics EXCEPT !.issuesReceived = @ + 1]
        skipped == [received EXCEPT !.issuesSkipped = @ + 1]
        dedupKey == IssueKey(req.repo, req.number)
    IN  IF req.action # "opened"
            THEN RelaySkip(req, Reply(200, "Ignoring action"), metrics, NotAttempted)
        ELSE IF req.repo = "" \/ req.number = 0
            THEN RelaySkip(req, Reply(400, "Malformed payload"), metrics, NotAttempted)
        ELSE IF ~Truthy(getRepoConfig(req.repo), "enabled")
            THEN RelaySkip(req, Reply(200, "Repo not enabled"), skipped, NotAttempted)
        ELSE IF isDuplicate(processed, dedupKey, clock)
            THEN RelaySkip(req, Reply(200, "Already processed"), skipped, clock)
        ELSE RelayAdmit(req, Reply(200, "Notified"), received, dedupKey, "issue", "notifyNewIssue")

\* The handler taking a comment event of any action for a created comment
handleIssueComment_AnyAction(req) ==
    LET dedupKey == RalphKey(req.repo, req.number)
    IN  IF ~IsRalphCommand(req.comment)
            THEN RelaySkip(req, Reply(200, "Not a /ralph command"), metrics, NotAttempted)
        ELSE IF req.repo = "" \/ req.number = 0
            THEN RelaySkip(req, Reply(400, "Malformed payload"), metrics, NotAttempted)
        ELSE IF ~Truthy(getRepoConfig(req.repo), "enabled")
            THEN RelaySkip(req, Reply(200, "Repo not enabled"), metrics, NotAttempted)
        ELSE IF isDuplicate(processed, dedupKey, clock)
            THEN RelaySkip(req, Reply(200, "Already spawned"), metrics, clock)
        ELSE RelayAdmit(req, Reply(200, "Spawning Ralph"), metrics, dedupKey, "ralph", "spawnRalph")

handleIssueComment(req) ==
    LET dedupKey == RalphKey(req.repo, req.number)
    IN  IF req.action # "created"
            THEN RelaySkip(req, Reply(200, "Ignoring comment action"), metrics, NotAttempted)
        ELSE IF ~IsRalphCommand(req.comment)
            THEN RelaySkip(req, Reply(200, "Not a /ralph command"), metrics, NotAttempted)
        ELSE IF req.repo = "" \/ req.number = 0
            THEN RelaySkip(req, Reply(400, "Malformed payload"), metrics, NotAttempted)
        ELSE IF ~Truthy(getRepoConfig(req.repo), "enabled")
            THEN RelaySkip(req, Reply(200, "Repo not enabled"), metrics, NotAttempted)
        ELSE IF isDuplicate(processed, dedupKey, clock)
            THEN RelaySkip(req, Reply(200, "Already spawned"), metrics, clock)
        ELSE RelayAdmit(req, Reply(200, "Spawning Ralph"), metrics, dedupKey, "ralph", "spawnRalph")

\* POST /webhook of the relay
RelayWebhook(req) ==
    /\ Len(deliveries) < MaxRelayDeliveries
    /\ IF ~verifyWebhookSignature(req)
           THEN RelaySkip(req, Reply(401, "Invalid signature"), metrics, NotAttempted)
       ELSE IF req.event = "ping"
           THEN RelaySkip(req, Reply(200, "pong"), metrics, NotAttempted)
       ELSE IF req.event = "issues" THEN handleNewIssue(req)
       ELSE IF req.event = "issue_comment" THEN handleIssueComment(req)
       ELSE RelaySkip(req, Reply(200, "Ignoring event"), metrics, NotAttempted)
    /\ UNCHANGED <<clock, decide>>

\* The chains with the notification sent whether or not the spawn succeeded
RelaySettles_NotifyRegardless(id, ok) ==
    /\ id \in DOMAIN tasks
    /\ tasks[id].pc \notin {"resolved", "rejected"}
    /\ LET t == tasks[id]
       IN  IF ~ok
           THEN /\ tasks' = [tasks EXCEPT ![id].pc = "rejected",
                                          ![id].calls = IF t.pc = "spawnRalph"
                                                        THEN Append(@, "notifyRalphSpawned")
                                                        ELSE @]
                /\ metrics' = [metrics EXCEPT !.errors = @ + 1]
           ELSE CASE t.pc = "notifyNewIssue" ->
                       /\ tasks' = [tasks EXCEPT ![id].pc = "resolved"]
                       /\ metrics' = [metrics EXCEPT !.issuesNotified = @ + 1]
                  [] t.pc = "spawnRalph" ->
                       /\ tasks' = [tasks EXCEPT ![id].pc = "notifyRalphSpawned",
                                                 ![id].calls = Append(@, "notifyRalphSpawned")]
                       /\ metrics' = [metrics EXCEPT !.ralphSpawned = @ + 1]
                  [] t.pc = "notifyRalphSpawned" ->
                       /\ tasks' = [tasks EXCEPT ![id].pc = "resolved"]
                       /\ metrics' = metrics
    /\ UNCHANGED <<clock, processed, deliveries, decide>>

\* The chains with a failed spawn giving its dedup entry back
RelaySettles_FailureFreesSlot(id, ok) ==
    /\ id \in DOMAIN tasks
    /\ tasks[id].pc \notin {"resolved", "rejected"}
    /\ LET t == tasks[id]
       IN  IF ~ok
           THEN /\ tasks' = [tasks EXCEPT ![id].pc = "rejected"]
                /\ metrics' = [metrics EXCEPT !.errors = @ + 1]
                /\ processed' = IF t.pc = "spawnRalph"
                                THEN [k \in DOMAIN processed \ {RalphKey(t.repo, t.number)} |->
                                          processed[k]]
                                ELSE processed
           ELSE /\ processed' = processed
                /\ CASE t.pc = "notifyNewIssue" ->
                       /\ tasks' = [tasks EXCEPT ![id].pc = "resolved"]
                       /\ metrics' = [metrics EXCEPT !.issuesNotified = @ + 1]
                  [] t.pc = "spawnRalph" ->
                       /\ tasks' = [tasks EXCEPT ![id].pc = "notifyRalphSpawned",
                                                 ![id].calls = Append(@, "notifyRalphSpawned")]
                       /\ metrics' = [metrics EXCEPT !.ralphSpawned = @ + 1]
                  [] t.pc = "notifyRalphSpawned" ->
                       /\ tasks' = [tasks EXCEPT ![id].pc = "resolved"]
                       /\ metrics' = metrics
    /\ UNCHANGED <<clock, deliveries, decide>>

\* The .then and .catch of the two promise chains
RelaySettles(id, ok) ==
    /\ id \in DOMAIN tasks
    /\ tasks[id].pc \notin {"resolved", "rejected"}
    /\ LET t == tasks[id]
       IN  IF ~ok
           THEN /\ tasks' = [tasks EXCEPT ![id].pc = "rejected"]
                /\ metrics' = [metrics EXCEPT !.errors = @ + 1]
           ELSE CASE t.pc = "notifyNewIssue" ->
                       /\ tasks' = [tasks EXCEPT ![id].pc = "resolved"]
                       /\ metrics' = [metrics EXCEPT !.issuesNotified = @ + 1]
                  [] t.pc = "spawnRalph" ->
                       /\ tasks' = [tasks EXCEPT ![id].pc = "notifyRalphSpawned",
                                                 ![id].calls = Append(@, "notifyRalphSpawned")]
                       /\ metrics' = [metrics EXCEPT !.ralphSpawned = @ + 1]
                  [] t.pc = "notifyRalphSpawned" ->
                       /\ tasks' = [tasks EXCEPT ![id].pc = "resolved"]
                       /\ metrics' = metrics
    /\ UNCHANGED <<clock, processed, deliveries, decide>>

\* The instants of the relay's clock, the end of a window among them
RelayInstants ==
    {StartTime + d : d \in {0, DEDUP_TTL_MS - 1, DEDUP_TTL_MS, DEDUP_TTL_MS + 1}}

RelayTick ==
    /\ \E t \in RelayInstants : t > clock /\ clock' = t
    /\ UNCHANGED <<processed, metrics, deliveries, tasks, decide>>

CommentEvent(action, repo, number, comment) ==
    LET unsigned == [signature |-> NoSignature, event |-> "issue_comment", action |-> action,
                     repo |-> repo, number |-> number, title |-> <<"Crash">>,
                     body |-> <<"login">>, comment |-> comment]
    IN  [unsigned EXCEPT !.signature = Sign(WebhookSecret, RawBody(unsigned))]

RelayIssueEvent(action, repo, number) ==
    LET unsigned == [signature |-> NoSignature, event |-> "issues", action |-> action,
                     repo |-> repo, number |-> number, title |-> <<"Crash">>,
                     body |-> <<"login">>, comment |-> <<>>]
    IN  [unsigned EXCEPT !.signature = Sign(WebhookSecret, RawBody(unsigned))]

CommentTexts ==
    { RalphToken,
      RalphToken \o <<" ", "f", "i", "x">>,
      RalphToken \o <<"i", "e">>,
      <<" ">> \o RalphToken,
      <<"/", "R", "a", "l", "p", "h">>,
      <<"f", "i", "x", " ">> \o RalphToken,
      <<>> }

RelayRequests ==
    {RelayIssueEvent("opened", repo, 1) : repo \in {"idynic", "unknown-repo", "constructor"}}
    \cup {CommentEvent("created", "idynic", 1, text) : text \in CommentTexts}
    \cup {CommentEvent("created", repo, 1, RalphToken) : repo \in {"unknown-repo", "constructor"}}
    \cup { CommentEvent("edited", "idynic", 1, RalphToken),
           [CommentEvent("created", "idynic", 1, RalphToken) EXCEPT !.signature = NoSignature] }

\* Requests of every kind that the relay answers before its duplicate
\* test, next to one issue and one /ralph comment that it processes: without
\* the repository name or the issue number, with another action, with
\* another event type, and a ping
ScreenRequests ==
    { RelayIssueEvent("opened", "idynic", 1),
      CommentEvent("created", "idynic", 1, RalphToken),
      RelayIssueEvent("opened", "", 1),
      RelayIssueEvent("opened", "idynic", 0),
      CommentEvent("created", "", 1, RalphToken),
      CommentEvent("created", "idynic", 0, RalphToken),
      RelayIssueEvent("closed", "idynic", 1),
      RelayIssueEvent("closed", "", 1),
      CommentEvent("deleted", "idynic", 1, RalphToken),
      CommentEvent("created", "idynic", 0, <<"f", "i", "x">>),
      [RelayIssueEvent("opened", "idynic", 1) EXCEPT !.event = "ping"],
      [RelayIssueEvent("opened", "idynic", 1) EXCEPT !.event = "push"] }

----------------------------------------------------------------------------
(* The decision engine called directly *)

DecideAnalyses ==
    [type : {"bug"}, severity : {"high"}, autoFixable : BOOLEAN,
     confidence : {0, 699999, 700000, 849999, 850000, 1000000},
     reasoning : {JStr("Clear root cause")},
     acceptanceCriteria : {JStrings(<<"Page loads">>)},
     needsClarification : {<<>>, JStrings(<<"Which page?">>)}, ralphPrompt : {JNull}]

DecidePolicies ==
    [enabled : {TRUE}, autoSpawnEnabled : BOOLEAN, priority : {"high"},
     projectDir : {"/home/jeff/projects/idynic"},
     noAutoFixPatterns : {<<>>, <<PatSecurity>>, DefaultPatterns}]

DecideInputs ==
    [analysis : DecideAnalyses,
     repo : {"idynic", "atriumn-site", "unknown-repo"},
     issue : [title : {<<>>, <<"Crash">>, <<"Security">>, <<"Database">>},
              body : {<<>>, <<"migration">>, <<NEWLINE, "migration">>}],
     repoConf : DecidePolicies]

NoDecide == [called |-> FALSE, result |-> "none"]

Decide ==
    /\ ~decide.called
    /\ "analysis" \in DOMAIN decide
    /\ decide' = [decide EXCEPT !.called = TRUE,
                                !.result = determineAction(decide.analysis, decide.repo,
                                                           decide.issue, decide.repoConf)]
    /\ UNCHANGED <<clock, processed, metrics, deliveries, tasks>>

----------------------------------------------------------------------------
(* The pipeline called directly, on every kind of classifier output *)

ValidObject == AnalysisObject(TRUE, 850000, <<>>, JStr("Fix it"))

With(obj, field, value) == [obj EXCEPT ![field] = value]

\* Outputs that break one rule of parseAnalysisResult each
RejectedObjects ==
    {[f \in DOMAIN ValidObject \ {RequiredFields[i]} |-> ValidObject[f]] :
         i \in 1..Len(RequiredFields)}
    \cup { With(ValidObject, "type", JStr("invalid")),
           With(ValidObject, "severity", JStr("urgent")),
           With(ValidObject, "autoFixable", JStr("yes")),
           With(ValidObject, "confidence", JNum(1500000)),
           With(ValidObject, "confidence", JNum(-100000)),
           With(ValidObject, "confidence", JStr("0.9")),
           With(ValidObject, "acceptanceCriteria", JStr("not an array")),
           With(ValidObject, "needsClarification", JStr("not an array")) }

\* Outputs that differ from a valid one in a field or an item that
\* parseAnalysisResult does not look at
UncheckedObjects ==
    { With(ValidObject, "reasoning", JNum(42)),
      With(ValidObject, "acceptanceCriteria", JArr(<<JNum(1)>>)),
      With(ValidObject, "needsClarification", JArr(<<JNum(1)>>)),
      With(ValidObject, "ralphPrompt", JNum(5)) }

AcceptedObjects ==
    { ValidObject,
      With(ValidObject, "confidence", JNum(0)),
      With(ValidObject, "confidence", JNum(1000000)),
      AnalysisObject(TRUE, 950000, <<"Which page?">>, JNull),
      AnalysisObject(FALSE, 900000, <<>>, JNull) }

ClassifierOutputs ==
    {ProviderError, ProviderText(<<TokProse>>)}
    \cup {ProviderText(<<TokObject(o)>>) :
              o \in RejectedObjects \cup UncheckedObjects \cup AcceptedObjects}
    \cup {ProviderText(<<TokFence, TokNewline, TokObject(o), TokNewline, TokFence>>) :
              o \in {ValidObject, With(ValidObject, "confidence", JNum(1500000))}}

PipelineInputs ==
    [reply : ClassifierOutputs,
     repo : {"idynic"},
     number : {1},
     issue : {[title |-> <<"Crash">>, body |-> <<"login">>],
              [title |-> <<"Security">>, body |-> <<"login">>]},
     repoConf : {getRepoConfig("idynic")}]

\* processIssue(repo, number, issue, repoConf) called on the inputs
ProcessIssue ==
    /\ ~decide.called
    /\ "reply" \in DOMAIN decide
    /\ decide' = [decide EXCEPT !.called = TRUE]
    /\ tasks' = (1 :> NewTask(decide.repo, decide.number, decide.issue, decide.repoConf, clock))
    /\ UNCHANGED <<clock, processed, metrics, deliveries>>

\* The provider gives the reply of the inputs
TriageSettlesGiven ==
    /\ "reply" \in DOMAIN decide
    /\ TriageSettles(1, decide.reply)

----------------------------------------------------------------------------
(* The policy lookup called directly *)

MaxLookups == 3   \* calls of getRepoConfig in a row

RepoNames == DOMAIN repoConfig \cup {"unknown-repo", ""} \cup InheritedNames

Lookup(repoName) ==
    /\ "lookups" \in DOMAIN decide
    /\ Len(decide.lookups) < MaxLookups
    /\ decide' = [decide EXCEPT !.lookups =
                      Append(@, [name |-> repoName, policy |-> getRepoConfig(repoName)])]
    /\ UNCHANGED <<clock, processed, metrics, deliveries, tasks>>

----------------------------------------------------------------------------
(* The parser called directly, on a text as it is and inside a code fence *)

MaxTextLen == 3   \* tokens of a classifier text

Texts ==
    UNION {[1..n -> { TokObject(ValidObject),
                      TokObject(With(ValidObject, "type", JStr("invalid"))),
                      TokProse, TokNewline, TokNbsp, TokFence, TokFenceJson }] :
               n \in 0..MaxTextLen}

Wrappers == {"none", "json", "plain"}

\* The text as the provider may send it: alone, or between an opening fence
\* line (with or without the json tag) and a closing fence line
Wrap(wrapper, text) ==
    CASE wrapper = "json" -> <<TokFenceJson, TokNewline>> \o text \o <<TokNewline, TokFence>>
      [] wrapper = "plain" -> <<TokFence, TokNewline>> \o text \o <<TokNewline, TokFence>>
      [] OTHER -> text

NotParsed == [ok |-> FALSE, error |-> "not called", value |-> <<>>]

\* parseAnalysisResult called on the text in one of its wrappings
Parse(wrapper) ==
    /\ "parsed" \in DOMAIN decide
    /\ decide.parsed[wrapper] = NotParsed
    /\ decide' = [decide EXCEPT !.parsed[wrapper] =
                      parseAnalysisResult(Wrap(wrapper, decide.text))]
    /\ UNCHANGED <<clock, processed, metrics, deliveries, tasks>>

----------------------------------------------------------------------------
(* The decision engine called repeatedly, between webhook deliveries *)

MaxCalls == 2   \* calls of determineAction in a row

RepeatInputs ==
    [analysis : {a \in DecideAnalyses :
                    a.autoFixable /\ a.confidence \in {700000, 850000}
                        /\ a.needsClarification = <<>>},
     repo : {"idynic", "unknown-repo"},
     issue : [title : {<<"Crash">>, <<"Security">>}, body : {<<>>}],
     repoConf : {p \in DecidePolicies :
                    p.autoSpawnEnabled /\ p.noAutoFixPatterns \in {<<>>, DefaultPatterns}}]

\* determineAction called with its four arguments; the call and what it
\* returned are logged
DecideCall(in) ==
    /\ "calls" \in DOMAIN decide
    /\ Len(decide.calls) < MaxCalls
    /\ decide' = [decide EXCEPT !.calls =
                      Append(@, [analysis |-> in.analysis, repo |-> in.repo,
                                 issue |-> in.issue, repoConf |-> in.repoConf,
                                 result |-> determineAction(in.analysis, in.repo,
                                                            in.issue, in.repoConf)])]
    /\ UNCHANGED <<clock, processed, metrics, deliveries, tasks>>

----------------------------------------------------------------------------
(* Specifications *)

Init ==
    /\ clock = StartTime
    /\ processed = <<>>
    /\ metrics = InitialMetrics
    /\ deliveries = <<>>
    /\ tasks = <<>>
    /\ decide = NoDecide

Next ==
    \/ \E req \in Requests : Webhook(req)
    \/ \E id \in DOMAIN tasks, reply \in ProviderReplies : TriageSettles(id, reply)
    \/ \E id \in DOMAIN tasks, ok \in BOOLEAN : ActionSettles(id, ok)
    \/ \E id \in DOMAIN tasks, ok \in BOOLEAN : NotifySettles(id, ok)
    \/ Prune
    \/ Tick

Spec == Init /\ [][Next]_vars

InitDecide ==
    /\ clock = StartTime
    /\ processed = <<>>
    /\ metrics = InitialMetrics
    /\ deliveries = <<>>
    /\ tasks = <<>>
    /\ \E in \in DecideInputs :
           decide = [called |-> FALSE, result |-> "none", analysis |-> in.analysis,
                     repo |-> in.repo, issue |-> in.issue, repoConf |-> in.repoConf]

NextDecide == Decide

SpecDecide == InitDecide /\ [][NextDecide]_vars

InitPipeline ==
    /\ clock = StartTime
    /\ processed = <<>>
    /\ metrics = InitialMetrics
    /\ deliveries = <<>>
    /\ tasks = <<>>
    /\ \E in \in PipelineInputs :
           decide = [called |-> FALSE, result |-> "none", reply |-> in.reply,
                     repo |-> in.repo, number |-> in.number, issue |-> in.issue,
                     repoConf |-> in.repoConf]

NextPipeline ==
    \/ ProcessIssue
    \/ TriageSettlesGiven
    \/ \E ok \in BOOLEAN : ActionSettles(1, ok)
    \/ \E ok \in BOOLEAN : NotifySettles(1, ok)

SpecPipeline == InitPipeline /\ [][NextPipeline]_vars

InitRelay ==
    /\ clock = StartTime
    /\ processed = <<>>
    /\ metrics = [issuesReceived |-> 0, issuesNotified |-> 0, ralphSpawned |-> 0,
                  issuesSkipped |-> 0, errors |-> 0]
    /\ deliveries = <<>>
    /\ tasks = <<>>
    /\ decide = NoDecide

NextRelay ==
    \/ \E req \in RelayRequests : RelayWebhook(req)
    \/ \E id \in DOMAIN tasks, ok \in BOOLEAN : RelaySettles(id, ok)
    \/ Prune
    \/ RelayTick

SpecRelay == InitRelay /\ [][NextRelay]_vars

InitRepeat ==
    /\ clock = StartTime
    /\ processed = <<>>
    /\ metrics = InitialMetrics
    /\ deliveries = <<>>
    /\ tasks = <<>>
    /\ decide = [called |-> FALSE, result |-> "none", calls |-> <<>>]

NextRepeat ==
    \/ \E in \in RepeatInputs : DecideCall(in)
    \/ \E req \in {IssueEvent("opened", "idynic", 1, <<"Crash">>, <<"login">>)} : Webhook(req)

SpecRepeat == InitRepeat /\ [][NextRepeat]_vars

InitParse ==
    /\ clock = StartTime
    /\ processed = <<>>
    /\ metrics = InitialMetrics
    /\ deliveries = <<>>
    /\ tasks = <<>>
    /\ decide \in {[called |-> FALSE, result |-> "none", text |-> text,
                    parsed |-> [w \in Wrappers |-> NotParsed]] : text \in Texts}

NextParse == \E wrapper \in Wrappers : Parse(wrapper)

SpecParse == InitParse /\ [][NextParse]_vars

NextScreen ==
    \/ \E req \in ScreenRequests : RelayWebhook(req)
    \/ \E id \in DOMAIN tasks, ok \in BOOLEAN : RelaySettles(id, ok)

SpecScreen == InitRelay /\ [][NextScreen]_vars

----------------------------------------------------------------------------
(* src/spawner.js: the prompt handed to the fix invoker *)

\* JavaScript's truthiness of a JSON value: null, "", 0 and false are falsy
JsTruthy(j) ==
    CASE j.k = "null" -> FALSE
      [] j.k = "str" -> j.v[1] # ""
      [] j.k = "num" -> j.v[1] # 0
      [] j.k = "bool" -> j.v[1]
      [] OTHER -> TRUE

\* String(value) as a template literal applies it
JsToString(j) ==
    CASE j.k = "str" -> j.v[1]
      [] j.k = "num" -> ToString(j.v[1])
      [] j.k = "bool" -> IF j.v[1] THEN "true" ELSE "false"
      [] j.k = "null" -> "null"
      [] OTHER -> "[object]"

\* Array.prototype.join writes null as the empty string
JoinPiece(j) == IF j.k = "null" THEN "" ELSE JsToString(j)

RECURSIVE CriteriaLines(_)
CriteriaLines(criteria) ==
    IF criteria = <<>> THEN <<>>
    ELSE <<NEWLINE, "- ", JsToString(Head(criteria))>> \o CriteriaLines(Tail(criteria))

\* The text is a string value whose v holds the pieces of the text in order
generateFallbackPrompt(repo, number, analysis) ==
    LET head == <<"Fix GitHub issue atriumn/", repo, "#", ToString(number), ".",
                  NEWLINE, NEWLINE,
                  "## Issue Type: ", analysis.type, NEWLINE,
                  "## Severity: ", analysis.severity, NEWLINE, NEWLINE,
                  "## Analysis", NEWLINE, JoinPiece(analysis.reasoning)>>
        criteria == IF Len(analysis.acceptanceCriteria) > 0
                    THEN <<NEWLINE, NEWLINE, "## Acceptance Criteria">>
                         \o CriteriaLines(analysis.acceptanceCriteria)
                    ELSE <<>>
        instructions == <<NEWLINE, NEWLINE, "## Instructions", NEWLINE,
                          "1. Read the relevant code and understand the issue", NEWLINE,
                          "2. Implement the fix", NEWLINE,
                          "3. Run existing tests to verify nothing breaks", NEWLINE,
                          "4. Commit with a clear message referencing the issue">>
    IN  [k |-> "str", v |-> head \o criteria \o instructions]

\* The fallback taken for null alone
SpawnPrompt_NullOnly(repo, number, analysis) ==
    IF analysis.ralphPrompt.k # "null" THEN analysis.ralphPrompt
    ELSE generateFallbackPrompt(repo, number, analysis)

\* analysis.ralphPrompt || generateFallbackPrompt(repo, number, analysis)
SpawnPrompt(repo, number, analysis) ==
    IF JsTruthy(analysis.ralphPrompt) THEN analysis.ralphPrompt
    ELSE generateFallbackPrompt(repo, number, analysis)

\* spawnRalphForIssue: writeFile throws on a prompt that is not a string,
\* and then the script is never run; the script's own outcome is ok
spawnRalphForIssue(repo, number, analysis, ok) ==
    LET prompt == SpawnPrompt(repo, number, analysis)
        written == prompt.k = "str"
    IN  [called |-> TRUE, prompt |-> prompt, written |-> written, started |-> written,
         args |-> IF written
                  THEN <<"--project", repo, "--issue", ToString(number),
                         "--prompt-file", <<"/tmp/issue-", repo, "-", ToString(number), ".txt">> >>
                  ELSE <<>>,
         ok |-> written /\ ok]

----------------------------------------------------------------------------
(* The fix invoker called from the pipeline on a classification *)

SpawnObjects ==
    { With(With(With(With(With(ValidObject, "ralphPrompt", rp),
                               "acceptanceCriteria", JArr(JStrings(ac))),
                          "confidence", JNum(c)),
                     "type", JStr(type)),
                "reasoning", reasoning) :
          rp \in {JStr("Fix it"), JStr(""), JNull, JNum(42), JNum(0), JBool(FALSE)},
          ac \in {<<>>, <<"Page loads">>, <<"Page loads", "No error">>},
          c \in {849999, 850000, 1000000},
          type \in {"bug", "feature"}, reasoning \in {JStr("Clear root cause"), JNull} }

SpawnInputs ==
    [reply : {ProviderText(<<TokObject(o)>>) : o \in SpawnObjects},
     repo : {"idynic"},
     number : {1, 12},
     issue : {[title |-> <<"Crash">>, body |-> <<"login">>]},
     repoConf : {getRepoConfig("idynic")}]

\* processIssue: const { analysis, action } = await triageIssue(...)
TriageGiven ==
    /\ "spawn" \in DOMAIN decide
    /\ ~decide.called
    /\ decide' = [decide EXCEPT !.called = TRUE,
                                !.triage = triageIssue(decide.reply, decide.issue,
                                                       decide.repo, decide.repoConf),
                                !.result = triageIssue(decide.reply, decide.issue,
                                                       decide.repo, decide.repoConf).action]
    /\ UNCHANGED <<clock, processed, metrics, deliveries, tasks>>

\* processIssue: case 'auto-spawn': await spawnRalphForIssue(repo, number, analysis)
SpawnGiven(ok) ==
    /\ "spawn" \in DOMAIN decide
    /\ decide.called
    /\ decide.triage.ok
    /\ decide.triage.action = "auto-spawn"
    /\ ~decide.spawn.called
    /\ decide' = [decide EXCEPT !.spawn = spawnRalphForIssue(decide.repo, decide.number,
                                                             decide.triage.analysis, ok)]
    /\ UNCHANGED <<clock, processed, metrics, deliveries, tasks>>

InitSpawn ==
    /\ clock = StartTime
    /\ processed = <<>>
    /\ metrics = InitialMetrics
    /\ deliveries = <<>>
    /\ tasks = <<>>
    /\ \E in \in SpawnInputs :
           decide = [called |-> FALSE, result |-> "none", reply |-> in.reply,
                     repo |-> in.repo, number |-> in.number, issue |-> in.issue,
                     repoConf |-> in.repoConf,
                     triage |-> [ok |-> FALSE, error |-> "", analysis |-> <<>>,
                                 action |-> "none"],
                     spawn |-> [called |-> FALSE, prompt |-> JNull, written |-> FALSE,
                                started |-> FALSE, args |-> <<>>, ok |-> FALSE]]

NextSpawn ==
    \/ TriageGiven
    \/ \E ok \in BOOLEAN : SpawnGiven(ok)

SpecSpawn == InitSpawn /\ [][NextSpawn]_vars

----------------------------------------------------------------------------
(* src/index.js: start, with the sweep on its hourly timer *)

MaxHours == 26            \* hours of running time observed
MaxSweepDeliveries == 2   \* requests delivered while the timer runs

\* setInterval(pruneProcessed, 60 * 60 * 1000)
SWEEP_INTERVAL_MS == 60 * 60 * 1000

\* The time at which the timer fires next: one interval after start() for
\* the first sweep, one interval after the last sweep from then on
SweepDue == StartTime + (decide.sweeps + 1) * SWEEP_INTERVAL_MS

\* The timer fires: pruneProcessed runs at the hour
HourlySweep ==
    /\ "sweeps" \in DOMAIN decide
    /\ clock = SweepDue
    /\ processed' = pruneProcessed(processed, clock)
    /\ decide' = [decide EXCEPT !.sweeps = @ + 1]
    /\ UNCHANGED <<clock, metrics, deliveries, tasks>>

\* Time passes, up to the hour of the next sweep and not beyond it; the
\* instants observed are every full hour since start(), and the millisecond
\* after the first two of them
SweepTick ==
    /\ "sweeps" \in DOMAIN decide
    /\ \E t \in {StartTime + k * SWEEP_INTERVAL_MS : k \in 0..MaxHours}
                \cup {StartTime + k * SWEEP_INTERVAL_MS + 1 : k \in 0..1} :
           t > clock /\ t <= SweepDue /\ clock' = t
    /\ UNCHANGED <<processed, metrics, deliveries, tasks, decide>>

InitSweep ==
    /\ clock = StartTime
    /\ processed = <<>>
    /\ metrics = InitialMetrics
    /\ deliveries = <<>>
    /\ tasks = <<>>
    /\ decide = [called |-> FALSE, result |-> "none", sweeps |-> 0]

NextSweep ==
    \/ \E req \in { IssueEvent("opened", "idynic", 1, <<"Crash">>, <<"login">>),
                     IssueEvent("opened", "idynic", 2, <<"Crash">>, <<"login">>) } :
           Len(deliveries) < MaxSweepDeliveries /\ Webhook(req)
    \/ HourlySweep
    \/ SweepTick

SpecSweep == InitSweep /\ [][NextSweep]_vars

----------------------------------------------------------------------------
(* The server with collaborators that always answer *)

MaxLiveDeliveries == 2   \* requests delivered to the server

NextLive ==
    \/ \E req \in { IssueEvent("opened", "idynic", 1, <<"Crash">>, <<"login">>),
                     IssueEvent("opened", "idynic", 2, <<"Security">>, <<"login">>),
                     IssueEvent("opened", "unknown-repo", 1, <<"Crash">>, <<>>) } :
           Len(deliveries) < MaxLiveDeliveries /\ Webhook(req)
    \/ \E id \in DOMAIN tasks, reply \in ProviderReplies : TriageSettles(id, reply)
    \/ \E id \in DOMAIN tasks, ok \in BOOLEAN : ActionSettles(id, ok)
    \/ \E id \in DOMAIN tasks, ok \in BOOLEAN : NotifySettles(id, ok)

\* Every awaited call settles: the provider, the commenter or the fix
\* invoker, and the notifier either return or fail
SpecLive ==
    /\ Init
    /\ [][NextLive]_vars
    /\ \A id \in 1..MaxLiveDeliveries :
           /\ WF_vars(\E reply \in ProviderReplies : TriageSettles(id, reply))
           /\ WF_vars(\E ok \in BOOLEAN : ActionSettles(id, ok))
           /\ WF_vars(\E ok \in BOOLEAN : NotifySettles(id, ok))

----------------------------------------------------------------------------
(* src/index.js POST /deploy and src/deployer.js deploy *)

MaxDeployRequests == 2   \* requests delivered to /deploy

GitPull == [name |-> "git pull", cmd |-> "git pull origin main"]
NpmCi == [name |-> "npm ci", cmd |-> "npm ci --production"]
Restart == [name |-> "restart", cmd |-> "sudo systemctl restart issue-triage"]

\* The two versions of deploy(): "scheduled", the restart scheduled by
\* setTimeout after the loop, and "awaited", the restart as the third step
\* of the loop
DeploySteps(version) ==
    IF version = "awaited" THEN <<GitPull, NpmCi, Restart>> ELSE <<GitPull, NpmCi>>

PushEvent(event, ref) ==
    LET unsigned == [signature |-> NoSignature, event |-> event, ref |-> ref]
    IN  [unsigned EXCEPT !.signature = Sign(WebhookSecret, RawBody(unsigned))]

DeployRequests ==
    { PushEvent("push", "refs/heads/main"),
      PushEvent("push", "refs/heads/feature"),
      PushEvent("push", "refs/tags/main"),
      PushEvent("issues", "refs/heads/main"),
      PushEvent("ping", "refs/heads/main"),
      [PushEvent("push", "refs/heads/main") EXCEPT !.signature = NoSignature],
      [PushEvent("push", "refs/heads/main") EXCEPT
           !.signature = Sign("another-secret", RawBody(PushEvent("push", "refs/heads/main")))],
      [PushEvent("push", "refs/heads/main") EXCEPT
           !.signature = Sign(WebhookSecret, RawBody(PushEvent("push", "refs/heads/feature")))] }

\* POST /deploy; the call of deploy() runs it up to its first await, where
\* the first command is running
DeployWebhook(req) ==
    /\ "version" \in DOMAIN decide
    /\ Len(deliveries) < MaxDeployRequests
    /\ LET DeployDelivered(reply, started) ==
               [event |-> req.event, ref |-> req.ref, status |-> reply.status,
                message |-> reply.message, started |-> started]
           NewDeployment ==
               [step |-> 1, pc |-> "exec", cmds |-> <<DeploySteps(decide.version)[1].cmd>>,
                output |-> <<>>, result |-> "none"]
           Ignore(reply) ==
               /\ deliveries' = Append(deliveries, DeployDelivered(reply, FALSE))
               /\ tasks' = tasks
       IN  IF ~verifyWebhookSignature(req)
               THEN Ignore(Reply(401, "Invalid signature"))
           ELSE IF req.event # "push"
               THEN Ignore(Reply(200, "Ignoring event"))
           ELSE IF req.ref # "refs/heads/main"
               THEN Ignore(Reply(200, "Ignoring branch"))
           ELSE /\ deliveries' = Append(deliveries,
                                        DeployDelivered(Reply(200, "Deploying"), TRUE))
                /\ tasks' = tasks @@ ((Len(deliveries) + 1) :> NewDeployment)
    /\ UNCHANGED <<clock, processed, metrics, decide>>

\* The loop going on after a failed step
StepSettles_KeepsGoing(id, ok) ==
    /\ "version" \in DOMAIN decide
    /\ id \in DOMAIN tasks
    /\ tasks[id].pc = "exec"
    /\ LET t == tasks[id]
           steps == DeploySteps(decide.version)
           mark == [name |-> steps[t.step].name, ok |-> ok]
       IN  IF t.step < Len(steps)
           THEN tasks' = [tasks EXCEPT ![id] =
                    [t EXCEPT !.step = @ + 1, !.output = Append(@, mark),
                              !.cmds = Append(@, steps[t.step + 1].cmd)]]
           ELSE IF decide.version = "scheduled"
           THEN tasks' = [tasks EXCEPT ![id] =
                    [t EXCEPT !.pc = "timer", !.result = "success",
                              !.output = Append(Append(@, mark),
                                                [name |-> "restart", ok |-> TRUE])]]
           ELSE tasks' = [tasks EXCEPT ![id] =
                    [t EXCEPT !.pc = "done", !.result = "success",
                              !.output = Append(@, mark)]]
    /\ UNCHANGED <<clock, processed, metrics, deliveries, decide>>

\* One turn of the loop: the awaited command settles; a failure returns
\* { success: false }, the last success schedules the restart (or, with the
\* restart as a step, returns { success: true })
StepSettles(id, ok) ==
    /\ "version" \in DOMAIN decide
    /\ id \in DOMAIN tasks
    /\ tasks[id].pc = "exec"
    /\ LET t == tasks[id]
           steps == DeploySteps(decide.version)
           mark == [name |-> steps[t.step].name, ok |-> ok]
       IN  IF ~ok
           THEN tasks' = [tasks EXCEPT ![id] =
                    [t EXCEPT !.pc = "done", !.result = "failure",
                              !.output = Append(@, mark)]]
           ELSE IF t.step < Len(steps)
           THEN tasks' = [tasks EXCEPT ![id] =
                    [t EXCEPT !.step = @ + 1, !.output = Append(@, mark),
                              !.cmds = Append(@, steps[t.step + 1].cmd)]]
           ELSE IF decide.version = "scheduled"
           THEN tasks' = [tasks EXCEPT ![id] =
                    [t EXCEPT !.pc = "timer", !.result = "success",
                              !.output = Append(Append(@, mark),
                                                [name |-> "restart", ok |-> TRUE])]]
           ELSE tasks' = [tasks EXCEPT ![id] =
                    [t EXCEPT !.pc = "done", !.result = "success",
                              !.output = Append(@, mark)]]
    /\ UNCHANGED <<clock, processed, metrics, deliveries, decide>>

\* The setTimeout callback: the restart command is started
RestartTimerFires(id) ==
    /\ id \in DOMAIN tasks
    /\ tasks[id].pc = "timer"
    /\ tasks' = [tasks EXCEPT ![id].pc = "restarting", ![id].cmds = Append(@, Restart.cmd)]
    /\ UNCHANGED <<clock, processed, metrics, deliveries, decide>>

\* The restart command settles; its failure is logged only
RestartSettles(id, ok) ==
    /\ id \in DOMAIN tasks
    /\ tasks[id].pc = "restarting"
    /\ tasks' = [tasks EXCEPT ![id].pc = "done"]
    /\ UNCHANGED <<clock, processed, metrics, deliveries, decide>>

InitDeploy ==
    /\ clock = StartTime
    /\ processed = <<>>
    /\ metrics = InitialMetrics
    /\ deliveries = <<>>
    /\ tasks = <<>>
    /\ \E version \in {"scheduled", "awaited"} :
           decide = [called |-> FALSE, result |-> "none", version |-> version]

NextDeploy ==
    \/ \E req \in DeployRequests : DeployWebhook(req)
    \/ \E id \in DOMAIN tasks, ok \in BOOLEAN : StepSettles(id, ok)
    \/ \E id \in DOMAIN tasks : RestartTimerFires(id)
    \/ \E id \in DOMAIN tasks, ok \in BOOLEAN : RestartSettles(id, ok)

SpecDeploy == InitDeploy /\ [][NextDeploy]_vars

----------------------------------------------------------------------------
(* The duplicate tests called directly on a Map with one entry *)

MaxStamp == 2   \* the largest of the small timestamps stored

\* isAlreadyProcessed(repo, number) for a key of the pipeline server (a
\* pair), isDuplicate(key) for a key of the relay, at Date.now() = clock
TestDuplicate ==
    /\ "key" \in DOMAIN decide
    /\ ~decide.called
    /\ decide' = [decide EXCEPT
                      !.called = TRUE,
                      !.result = IF Len(decide.key) = 2
                                 THEN IF isAlreadyProcessed(processed, decide.key[1],
                                                            decide.key[2], clock)
                                      THEN "duplicate" ELSE "new"
                                 ELSE IF isDuplicate(processed, decide.key, clock)
                                      THEN "duplicate" ELSE "new"]
    /\ UNCHANGED <<clock, processed, metrics, deliveries, tasks>>

\* A key of the pipeline server or of the relay; no entry, or an entry with
\* one of the first clock values or a later one as its timestamp, and the
\* clock at the recording, a millisecond later and around the end of the
\* window
InitDup ==
    /\ metrics = InitialMetrics
    /\ deliveries = <<>>
    /\ tasks = <<>>
    /\ \E key \in {DedupKey("idynic", 1), IssueKey("idynic", 1), RalphKey("idynic", 1)} :
           /\ decide = [called |-> FALSE, result |-> "none", key |-> key]
           /\ \/ /\ processed = <<>>
                 /\ clock \in 0..MaxStamp \cup {1000, DEDUP_TTL_MS}
              \/ \E ts \in 0..MaxStamp \cup {1000, DEDUP_TTL_MS},
                    d \in {0, 1, DEDUP_TTL_MS - 1, DEDUP_TTL_MS, DEDUP_TTL_MS + 1} :
                     /\ processed = (key :> ts)
                     /\ clock = ts + d

SpecDup == InitDup /\ [][TestDuplicate]_vars

InitLookup ==
    /\ clock = StartTime
    /\ processed = <<>>
    /\ metrics = InitialMetrics
    /\ deliveries = <<>>
    /\ tasks = <<>>
    /\ decide = [called |-> FALSE, result |-> "none", lookups |-> <<>>]

NextLookup == \E repoName \in RepoNames : Lookup(repoName)

SpecLookup == InitLookup /\ [][NextLookup]_vars

----------------------------------------------------------------------------
(* Deduplication claims *)

\* The deliveries that reached the duplicate check
IsAttempt(i) == deliveries[i].admitted \/ deliveries[i].message = "Already processed"
KeyOf(i) == DedupKey(deliveries[i].repo, deliveries[i].number)
EarlierAdmissions(j) ==
    {i \in 1..(j - 1) : deliveries[i].admitted /\ KeyOf(i) = KeyOf(j)}

\* C1: for every dedup key the first attempt is admitted, an attempt made
\* less than 24 hours after an admission of the key is rejected as a
\* duplicate, and an attempt made more than 24 hours after the key's last
\* admission is admitted again.
C1_DedupWindow ==
    \A j \in 1..Len(deliveries) :
        IsAttempt(j) =>
            /\ (EarlierAdmissions(j) = {} => deliveries[j].admitted)
            /\ \A i \in EarlierAdmissions(j) :
                   deliveries[j].at - deliveries[i].at < DEDUP_TTL_MS
                       => ~deliveries[j].admitted
            /\ (\A i \in EarlierAdmissions(j) :
                    deliveries[j].at - deliveries[i].at > DEDUP_TTL_MS)
                   => deliveries[j].admitted

\* Three attempts on one key: admitted, rejected within the window, admitted
\* again after it
C1_Witness ==
    /\ Len(deliveries) = 3
    /\ KeyOf(1) = KeyOf(2) /\ KeyOf(2) = KeyOf(3)
    /\ deliveries[1].admitted
    /\ deliveries[2].message = "Already processed"
    /\ deliveries[2].at - deliveries[1].at < DEDUP_TTL_MS
    /\ deliveries[3].admitted
    /\ deliveries[3].at - deliveries[1].at > DEDUP_TTL_MS

\* C2: under every interleaving of deliveries and background tasks, any two
\* admissions of the same key are at least 24 hours apart, and exactly the
\* admitted deliveries start a background task.
C2_AtMostOneAdmissionPerWindow ==
    /\ \A j \in 1..Len(deliveries) :
           deliveries[j].admitted =>
               \A i \in EarlierAdmissions(j) :
                   deliveries[j].at - deliveries[i].at >= DEDUP_TTL_MS
    /\ DOMAIN tasks = {i \in 1..Len(deliveries) : deliveries[i].admitted}

\* A duplicate is rejected while the task of the first delivery is still
\* awaiting the provider
C2_Witness ==
    \E i \in DOMAIN tasks, j \in 1..Len(deliveries) :
        /\ i < j
        /\ KeyOf(i) = KeyOf(j)
        /\ tasks[i].pc = "triageIssue"
        /\ deliveries[j].message = "Already processed"
        /\ deliveries[j].at = deliveries[i].at

----------------------------------------------------------------------------
(* Decision engine claims, on direct calls of determineAction *)

\* The issue text matches one of the patterns of the policy handed to the call
MatchesPolicy(repoConf, issue) ==
    \E i \in 1..Len(repoConf.noAutoFixPatterns) :
        RegExpTest(repoConf.noAutoFixPatterns[i], TitleAndBody(issue.title, issue.body))

\* C3: a classification with open questions is decided "clarify", whatever
\* the confidence, autoFixable, the issue text and the policy.
C3_ClarifyPreempts ==
    (decide.called /\ Len(decide.analysis.needsClarification) > 0)
        => decide.result = "clarify"

\* Open questions next to every signal for an automatic fix
C3_Witness ==
    /\ decide.called
    /\ Len(decide.analysis.needsClarification) > 0
    /\ decide.analysis.autoFixable
    /\ decide.analysis.confidence = 1000000
    /\ decide.repoConf.autoSpawnEnabled
    /\ ~MatchesPolicy(decide.repoConf, decide.issue)
    /\ ~matchesNoAutoFix(decide.repo, decide.issue.title, decide.issue.body)
    /\ decide.result = "clarify"

\* C4: when the issue text matches a sensitive pattern of the policy handed
\* to the decision function the decision is neither "auto-spawn" nor
\* "offer-fix", and with no open questions and autoFixable it is "notify".
C4_SensitiveOverride ==
    (decide.called /\ MatchesPolicy(decide.repoConf, decide.issue)) =>
        /\ decide.result \notin {"auto-spawn", "offer-fix"}
        /\ (decide.analysis.autoFixable /\ decide.analysis.needsClarification = <<>>)
               => decide.result = "notify"

DecisionTable(analysis, repoConf, issue) ==
    IF Len(analysis.needsClarification) > 0 THEN "clarify"
    ELSE IF ~analysis.autoFixable THEN "notify"
    ELSE IF MatchesPolicy(repoConf, issue) THEN "notify"
    ELSE IF ~repoConf.autoSpawnEnabled THEN "notify"
    ELSE IF analysis.confidence >= 850000 THEN "auto-spawn"
    ELSE IF analysis.confidence >= 700000 THEN "offer-fix"
    ELSE "notify"

\* C6: for every classification, policy and issue text determineAction
\* returns the value of the seven-step first-match table, one of the four
\* decisions.
C6_FirstMatchTable ==
    decide.called =>
        /\ decide.result \in TriageActions
        /\ decide.result = DecisionTable(decide.analysis, decide.repoConf, decide.issue)

----------------------------------------------------------------------------
(* Pipeline and acknowledgment claims *)

Fns(calls) == [i \in 1..Len(calls) |-> calls[i].fn]
Settled(t) == t.pc \in {"resolved", "rejected"}

\* C7: a task decided "auto-spawn" or "clarify" has invoked the notifier by
\* the time it ends, also when its spawn or its comment post failed.
C7_NotifyDespiteFailure ==
    \A id \in DOMAIN tasks :
        (Settled(tasks[id]) /\ tasks[id].action \in {"auto-spawn", "clarify"})
            => \E i \in 1..Len(tasks[id].calls) : tasks[id].calls[i].fn = "notifyTriage"

\* The calls of a task in which every call succeeds
ExpectedCalls(action) ==
    CASE action = "auto-spawn" -> <<"triageIssue", "spawnRalphForIssue", "notifyTriage">>
      [] action = "clarify" -> <<"triageIssue", "postClarification", "notifyTriage">>
      [] action \in {"offer-fix", "notify"} -> <<"triageIssue", "notifyTriage">>
      [] OTHER -> <<"triageIssue">>

\* C8: the calls of a task are, in order and each once, those of its
\* decision: fix invoker then notifier for "auto-spawn", commenter (with the
\* open questions) then notifier for "clarify", the notifier alone for
\* "offer-fix" and "notify"; all of them have been made when the task
\* resolves, the notifier is not called while the decision-specific call is
\* pending, and it receives the action that selected the branch.
C8_CallsPerDecision ==
    \A id \in DOMAIN tasks :
        LET t == tasks[id]
            want == ExpectedCalls(t.action)
        IN  /\ Len(t.calls) <= Len(want)
            /\ Fns(t.calls) = SubSeq(want, 1, Len(t.calls))
            /\ t.pc = "resolved" => Len(t.calls) = Len(want)
            /\ t.pc \in {"postClarification", "spawnRalphForIssue"}
                   => t.calls[Len(t.calls)].fn = t.pc
            /\ \A i \in 1..Len(t.calls) :
                   /\ t.calls[i].fn = "notifyTriage" => t.calls[i].action = t.action
                   /\ t.calls[i].fn = "postClarification"
                          => /\ t.calls[i].questions = t.analysis.needsClarification
                             /\ t.calls[i].questions # <<>>

\* One task resolved after spawning and one after posting a clarification
C8_Witness ==
    \E a, b \in DOMAIN tasks :
        /\ tasks[a].pc = "resolved" /\ tasks[a].action = "auto-spawn"
        /\ Fns(tasks[a].calls) = <<"triageIssue", "spawnRalphForIssue", "notifyTriage">>
        /\ tasks[b].pc = "resolved" /\ tasks[b].action = "clarify"
        /\ Fns(tasks[b].calls) = <<"triageIssue", "postClarification", "notifyTriage">>

\* A task whose classification failed: it left the triage await undecided
TriageFailed(t) == t.pc # "triageIssue" /\ t.action = "none"

\* C9: when classification fails the task ends without a decision and
\* without calling the commenter, the fix invoker or the notifier, and the
\* dedup entry of its admission stays: for 24 hours after the admission the
\* key is still a duplicate.
C9_FailedClassification ==
    \A id \in DOMAIN tasks :
        TriageFailed(tasks[id]) =>
            /\ tasks[id].pc = "rejected"
            /\ Fns(tasks[id].calls) = <<"triageIssue">>
            /\ (clock - tasks[id].at < DEDUP_TTL_MS)
                   => isAlreadyProcessed(processed, tasks[id].repo, tasks[id].number, clock)

\* A replay of an event whose classification failed is rejected
C9_Witness ==
    \E id \in DOMAIN tasks, j \in 1..Len(deliveries) :
        /\ TriageFailed(tasks[id])
        /\ id < j
        /\ KeyOf(j) = KeyOf(id)
        /\ deliveries[j].at > deliveries[id].at
        /\ deliveries[j].message = "Already processed"

\* C10: every admitted event is answered 200 "Processing" in the step that
\* admits it, when its task has started the classifier call and no call has
\* completed; the reply is never changed afterwards, whether the task
\* resolves or is rejected.
C10_ImmediateAcknowledgment ==
    /\ [](\A id \in DOMAIN tasks :
              deliveries[id].status = 200 /\ deliveries[id].message = "Processing")
    /\ [][ /\ \A i \in 1..Len(deliveries) :
                 Len(deliveries') >= i /\ deliveries'[i] = deliveries[i]
           /\ \A id \in DOMAIN tasks' \ DOMAIN tasks :
                 /\ deliveries'[id].status = 200
                 /\ tasks'[id].pc = "triageIssue"
                 /\ Fns(tasks'[id].calls) = <<"triageIssue">> ]_vars

\* Two acknowledged events, one whose task resolved and one whose task was
\* rejected
C10_Witness ==
    \E a, b \in DOMAIN tasks :
        /\ tasks[a].pc = "resolved"
        /\ tasks[b].pc = "rejected"
        /\ deliveries[a].message = "Processing"
        /\ deliveries[b].message = "Processing"

----------------------------------------------------------------------------
(* Failure containment claims *)

TasksAt(pc) == {id \in DOMAIN tasks : tasks[id].pc = pc}
ResolvedAs(action) == {id \in TasksAt("resolved") : tasks[id].action = action}

\* C11: every background task that fails, in whichever call, adds exactly
\* one to errors and nothing to issuesProcessed, autoSpawned or
\* clarificationsPosted; its failure changes neither a reply already sent,
\* nor the dedup cache, nor another task; and a later event that reaches the
\* duplicate check with a key outside its window is admitted and its task
\* started, failed tasks notwithstanding.
C11_FailureContained ==
    /\ []( /\ metrics.errors = Cardinality(TasksAt("rejected"))
           /\ metrics.issuesProcessed = Cardinality(TasksAt("resolved"))
           /\ metrics.autoSpawned = Cardinality(ResolvedAs("auto-spawn"))
           /\ metrics.clarificationsPosted = Cardinality(ResolvedAs("clarify")) )
    /\ [][ /\ \A id \in DOMAIN tasks :
                 (tasks[id].pc # "rejected" /\ tasks'[id].pc = "rejected") =>
                     /\ metrics' = [metrics EXCEPT !.errors = @ + 1]
                     /\ deliveries' = deliveries
                     /\ processed' = processed
                     /\ \A other \in DOMAIN tasks \ {id} : tasks'[other] = tasks[other]
           /\ \A id \in TasksAt("rejected") : tasks'[id] = tasks[id]
           /\ (TasksAt("rejected") # {} /\ Len(deliveries') > Len(deliveries)) =>
                 LET j == Len(deliveries')
                     d == deliveries'[j]
                 IN  ( /\ d.admitted \/ d.message = "Already processed"
                       /\ ~isAlreadyProcessed(processed, d.repo, d.number, clock) )
                     => /\ d.admitted
                        /\ j \in DOMAIN tasks'
                        /\ tasks'[j].pc = "triageIssue" ]_vars

\* A task that failed in its notification, followed by an event that was
\* admitted and processed to the end
C11_Witness ==
    \E a, c \in DOMAIN tasks :
        /\ a < c
        /\ tasks[a].pc = "rejected"
        /\ tasks[a].calls[Len(tasks[a].calls)].fn = "notifyTriage"
        /\ tasks[c].pc = "resolved"
        /\ tasks[c].at >= tasks[a].at
        /\ deliveries[a].message = "Processing"
        /\ metrics.errors = 1
        /\ metrics.issuesProcessed = 1
        /\ metrics.autoSpawned + metrics.clarificationsPosted = 1

\* C12: processIssue of the pipeline rejects exactly when one of the calls
\* it awaited failed, with the error of that call and without awaiting
\* anything after it; it resolves only after every call it made, the
\* notifier last, succeeded, and then with the action and the analysis that
\* the triage step returned.
C12_ErrorsPropagate ==
    \A id \in DOMAIN tasks :
        LET t == tasks[id]
            given == triageIssue(decide.reply, t.issue, t.repo, t.repoConf)
        IN  /\ Len(t.outcomes) = IF Settled(t) THEN Len(t.calls) ELSE Len(t.calls) - 1
            /\ (\E i \in 1..Len(t.outcomes) : t.outcomes[i] # "ok") <=> t.pc = "rejected"
            /\ t.pc = "rejected" =>
                   /\ t.error = t.outcomes[Len(t.outcomes)]
                   /\ t.error = IF Len(t.calls) = 1 THEN given.error
                                ELSE Thrown(t.calls[Len(t.calls)].fn)
                   /\ \A i \in 1..(Len(t.outcomes) - 1) : t.outcomes[i] = "ok"
            /\ t.pc = "resolved" =>
                   /\ t.error = ""
                   /\ t.calls[Len(t.calls)].fn = "notifyTriage"
                   /\ given.ok
                   /\ t.action = given.action /\ t.action \in TriageActions
                   /\ t.analysis = given.analysis

\* The fix invocation failed after a successful triage: processIssue
\* rejected with the spawner's error
C12_Witness ==
    /\ 1 \in DOMAIN tasks
    /\ tasks[1].pc = "rejected"
    /\ tasks[1].action = "auto-spawn"
    /\ Fns(tasks[1].calls) = <<"triageIssue", "spawnRalphForIssue">>
    /\ tasks[1].outcomes = <<"ok", "Ralph spawn failed">>
    /\ tasks[1].error = "Ralph spawn failed"

----------------------------------------------------------------------------
(* Classifier output claims, on direct calls of the pipeline *)

\* The JSON objects in the text of the given reply
GivenObjects ==
    IF decide.reply.ok
    THEN {decide.reply.text[i].obj :
              i \in {j \in 1..Len(decide.reply.text) : decide.reply.text[j].t = "object"}}
    ELSE {}

Has(o, field) == field \in DOMAIN o

\* The violations of the data model that the claim lists
MissesField(o) == \E i \in 1..Len(RequiredFields) : ~Has(o, RequiredFields[i])
BadCategory(o) ==
    Has(o, "type") /\ ~(o["type"].k = "str" /\ o["type"].v[1] \in validTypes)
BadSeverity(o) ==
    Has(o, "severity") /\ ~(o["severity"].k = "str" /\ o["severity"].v[1] \in validSeverities)
BadAutoFixable(o) == Has(o, "autoFixable") /\ o["autoFixable"].k # "bool"
BadConfidence(o) ==
    Has(o, "confidence") /\ ~( /\ o["confidence"].k = "num"
                               /\ o["confidence"].v[1] >= 0
                               /\ o["confidence"].v[1] <= 1000000 )
BadCriteria(o) == Has(o, "acceptanceCriteria") /\ o["acceptanceCriteria"].k # "arr"
BadQuestions(o) == Has(o, "needsClarification") /\ o["needsClarification"].k # "arr"

ListedViolations(o) ==
    {v \in {"field", "category", "severity", "autoFixable", "confidence", "criteria",
            "questions"} :
        CASE v = "field" -> MissesField(o)
          [] v = "category" -> BadCategory(o)
          [] v = "severity" -> BadSeverity(o)
          [] v = "autoFixable" -> BadAutoFixable(o)
          [] v = "confidence" -> BadConfidence(o)
          [] v = "criteria" -> BadCriteria(o)
          [] v = "questions" -> BadQuestions(o)}

\* C13: a classifier output with one of the listed violations (a missing
\* required field, a category or severity outside its enum, a non-boolean
\* autoFixable, a confidence that is not a number in [0,1], a non-sequence
\* acceptanceCriteria or needsClarification), alone or not, is rejected as
\* a schema violation: the task ends without analysis and without decision,
\* and no collaborator is called.
C13_SchemaRejection ==
    \A id \in DOMAIN tasks :
        LET t == tasks[id]
        IN  ( /\ t.pc # "triageIssue"
              /\ \E o \in GivenObjects : ListedViolations(o) # {} )
            => /\ t.pc = "rejected"
               /\ t.error \notin {"", "ok", "JSON", "provider"}
               /\ t.analysis = <<>>
               /\ t.action = "none"
               /\ Fns(t.calls) = <<"triageIssue">>

\* Every listed violation occurs alone in some output of the model
EachViolationAlone ==
    \A v \in {"field", "category", "severity", "autoFixable", "confidence", "criteria",
               "questions"} :
        \E o \in RejectedObjects : ListedViolations(o) = {v}

\* An output whose one violation is confidence 1.5 has been rejected
C13_Witness ==
    /\ 1 \in DOMAIN tasks
    /\ decide.reply = ProviderText(<<TokObject(With(ValidObject, "confidence", JNum(1500000)))>>)
    /\ \A o \in GivenObjects : ListedViolations(o) = {"confidence"}
    /\ tasks[1].pc = "rejected"
    /\ tasks[1].error = "confidence must be a number between 0 and 1"
    /\ Fns(tasks[1].calls) = <<"triageIssue">>
    /\ EachViolationAlone

\* The constraints of the data model on a classification, field by field
WellFormed(analysis) ==
    /\ analysis.type \in validTypes
    /\ analysis.severity \in validSeverities
    /\ analysis.autoFixable \in BOOLEAN
    /\ analysis.confidence \in 0..1000000
    /\ analysis.reasoning.k = "str"
    /\ \A i \in 1..Len(analysis.acceptanceCriteria) : analysis.acceptanceCriteria[i].k = "str"
    /\ \A i \in 1..Len(analysis.needsClarification) : analysis.needsClarification[i].k = "str"
    /\ analysis.ralphPrompt.k \in {"str", "null"}

\* C14: every classification that triageIssue hands to determineAction, and
\* that the pipeline then hands to the commenter, the fix invoker and the
\* notifier, satisfies every constraint of the data model, and the questions
\* given to the commenter are strings.
C14_ValidatedDownstream ==
    \A id \in DOMAIN tasks :
        /\ tasks[id].analysis # <<>> => WellFormed(tasks[id].analysis)
        /\ \A i \in 1..Len(tasks[id].calls) :
               \A q \in 1..Len(tasks[id].calls[i].questions) :
                   tasks[id].calls[i].questions[q].k = "str"

----------------------------------------------------------------------------
(* Policy claims *)

PolicyFields == {"enabled", "autoSpawnEnabled", "priority", "projectDir", "noAutoFixPatterns"}

\* C15: every call of getRepoConfig returns a policy record, and for a name
\* that is not a configured repository the record has enabled = false,
\* autoSpawnEnabled = false and no patterns.
C15_LookupTotal ==
    \A i \in 1..Len(decide.lookups) :
        LET name == decide.lookups[i].name
            policy == decide.lookups[i].policy
        IN  /\ DOMAIN policy = PolicyFields
            /\ name \notin DOMAIN repoConfig =>
                   /\ policy.enabled = FALSE
                   /\ policy.autoSpawnEnabled = FALSE
                   /\ policy.noAutoFixPatterns = <<>>

----------------------------------------------------------------------------
(* Request screening claims *)

\* The header is the HMAC-SHA256 of the raw body under the shared secret,
\* after the prefix sha256=
CarriesOwnHmac(req) ==
    /\ req.signature # NoSignature
    /\ req.signature.prefix = "sha256="
    /\ req.signature = Sign(WebhookSecret, RawBody(req))

\* The requests whose header is missing, lacks the prefix or is not that HMAC
Forged == {req \in Requests : ~CarriesOwnHmac(req)}

PolicyDisabled(repo) == repo \notin DOMAIN repoConfig \/ ~repoConfig[repo].enabled

\* An issue-opened event or a /ralph comment
IsTrigger(req) ==
    \/ req.event = "issues" /\ req.action = "opened"
    \/ req.event = "issue_comment" /\ req.action = "created" /\ startsWith(req.comment, RalphToken)

\* C16: an issue-opened or /ralph event for a repository whose policy is
\* disabled, unknown repositories included, is answered 200 and handling it
\* records no dedup entry and starts no call of a collaborator; no dedup
\* entry and no task ever exists for such a repository.
C16_DisabledNotProcessed ==
    /\ []( /\ \A key \in DOMAIN processed : ~PolicyDisabled(key[2])
           /\ \A id \in DOMAIN tasks : ~PolicyDisabled(tasks[id].repo) )
    /\ [][ \A req \in RelayRequests :
               ( /\ verifyWebhookSignature(req)
                 /\ IsTrigger(req)
                 /\ PolicyDisabled(req.repo)
                 /\ RelayWebhook(req) )
               => /\ deliveries'[Len(deliveries')].status = 200
                  /\ ~deliveries'[Len(deliveries')].admitted
                  /\ processed' = processed
                  /\ tasks' = tasks ]_vars

\* An issue of a repository named like an inherited property and a /ralph
\* comment in an unknown repository were both skipped
C16_Witness ==
    /\ Len(deliveries) = 2
    /\ deliveries[1].event = "issues" /\ deliveries[1].repo = "constructor"
    /\ deliveries[1].message = "Repo not enabled"
    /\ deliveries[2].event = "issue_comment" /\ deliveries[2].repo = "unknown-repo"
    /\ deliveries[2].message = "Repo not enabled"
    /\ processed = <<>>
    /\ tasks = <<>>
    /\ metrics.issuesSkipped = 1

----------------------------------------------------------------------------
(* Comment trigger claims, on the relay *)

\* What handling a signed comment-created event does, given whether its
\* text counts as the command: without the command nothing is recorded or
\* started; with it, whatever follows the token, the fix invoker is started
\* exactly when the repository is enabled and the key is not a duplicate
CommentHandledAs(req, isCommand) ==
    LET d == deliveries'[Len(deliveries')]
        key == RalphKey(req.repo, req.number)
    IN  IF ~isCommand
        THEN /\ processed' = processed
             /\ tasks' = tasks
             /\ d.message = "Not a /ralph command"
        ELSE /\ d.message # "Not a /ralph command"
             /\ d.admitted <=> ( /\ req.repo \in DOMAIN repoConfig
                                 /\ repoConfig[req.repo].enabled
                                 /\ ~isDuplicate(processed, key, clock) )
             /\ d.admitted =>
                    /\ tasks'[Len(deliveries')].calls = <<"spawnRalph">>
                    /\ processed'[key] = clock
             /\ ~d.admitted => (processed' = processed /\ tasks' = tasks)

IsCommentCreated(req) ==
    verifyWebhookSignature(req) /\ req.event = "issue_comment" /\ req.action = "created"

\* C18 as stated: a comment-created event starts the fix invoker only if
\* the comment text begins with the case-sensitive token /ralph, whatever
\* follows the token; a comment that does not begin with it records no
\* dedup entry and starts nothing.
C18_TokenAtStart ==
    [][ \A req \in RelayRequests :
            (IsCommentCreated(req) /\ RelayWebhook(req))
                => CommentHandledAs(req, startsWith(req.comment, RalphToken)) ]_vars

\* C18 amended: the same, with the comment text taken after its leading and
\* trailing white space is removed.
C18_TokenAtStartOfTrimmed ==
    [][ \A req \in RelayRequests :
            (IsCommentCreated(req) /\ RelayWebhook(req))
                => CommentHandledAs(req, startsWith(StringTrim(req.comment), RalphToken)) ]_vars

\* A comment with white space before the token and one with text after it
\* were handled as the command: the first spawned, the second was its
\* duplicate
C18_Witness ==
    /\ Len(deliveries) = 2
    /\ deliveries[1].comment = <<" ">> \o RalphToken
    /\ deliveries[1].message = "Spawning Ralph"
    /\ deliveries[2].comment = RalphToken \o <<" ", "f", "i", "x">>
    /\ deliveries[2].message = "Already spawned"
    /\ DOMAIN tasks = {1}
    /\ tasks[1].calls[1] = "spawnRalph"

----------------------------------------------------------------------------
(* Dedup cache claims *)

\* The time of the last admission of the key of delivery j, among the
\* deliveries before j
LastAdmission(j) ==
    LET times == {deliveries[i].at : i \in EarlierAdmissions(j)}
    IN  CHOOSE t \in times : \A u \in times : u <= t

\* C19: handling an attempt that is rejected as a duplicate leaves the dedup
\* cache as it was; the cache holds, for each key it has, the time of the
\* key's last admission; and an attempt made 24 hours or more after that
\* admission is admitted, however many duplicates came in between.
C19_DuplicateLeavesCache ==
    /\ []( /\ \A j \in 1..Len(deliveries) :
                 (IsAttempt(j) /\ EarlierAdmissions(j) # {}
                      /\ deliveries[j].at - LastAdmission(j) >= DEDUP_TTL_MS)
                     => deliveries[j].admitted
           /\ \A key \in DOMAIN processed :
                 \E i \in 1..Len(deliveries) :
                     /\ deliveries[i].admitted /\ KeyOf(i) = key
                     /\ processed[key] = deliveries[i].at
                     /\ \A l \in (i + 1)..Len(deliveries) :
                            KeyOf(l) = key => ~deliveries[l].admitted )
    /\ [][ Len(deliveries') > Len(deliveries) =>
               \A req \in Requests :
                   (Webhook(req) /\ deliveries'[Len(deliveries')].message = "Already processed")
                       => processed' = processed /\ tasks' = tasks ]_vars

\* A duplicate arrived just before the end of the window and left the
\* recorded time alone; the key was admitted again just after the end of
\* the window, less than 24 hours after the duplicate
C19_Witness ==
    /\ Len(deliveries) = 3
    /\ KeyOf(1) = KeyOf(2) /\ KeyOf(2) = KeyOf(3)
    /\ deliveries[1].admitted
    /\ deliveries[2].message = "Already processed"
    /\ deliveries[2].at > deliveries[1].at
    /\ deliveries[3].admitted
    /\ deliveries[3].at - deliveries[1].at >= DEDUP_TTL_MS
    /\ deliveries[3].at - deliveries[2].at < DEDUP_TTL_MS
    /\ processed[KeyOf(3)] = deliveries[3].at

\* The key that the relay's handlers test and record for a request
RelayKey(req) ==
    IF req.event = "issues" THEN IssueKey(req.repo, req.number)
    ELSE RalphKey(req.repo, req.number)

\* C20: an admission attempt for key k at time now is admitted if and only
\* if k has no entry or the recorded time of k is more than 24 hours before
\* now, an entry exactly 24 hours old being a duplicate still; an admitted
\* attempt records now under k, and a rejected one records nothing.
C20_AdmittedIffOlderThanWindow ==
    [][ \A req \in RelayRequests :
            LET d == deliveries'[Len(deliveries')]
                k == RelayKey(req)
            IN  (RelayWebhook(req) /\ (d.admitted \/ d.at # NotAttempted)) =>
                    /\ d.admitted <=>
                           (k \notin DOMAIN processed \/ clock - processed[k] > DEDUP_TTL_MS)
                    /\ d.admitted =>
                           /\ DOMAIN processed' = DOMAIN processed \cup {k}
                           /\ processed'[k] = clock
                           /\ \A other \in DOMAIN processed \ {k} :
                                  processed'[other] = processed[other]
                    /\ ~d.admitted => processed' = processed ]_vars

----------------------------------------------------------------------------
(* Sweep claims *)

\* C21: a sweep at time now removes exactly the entries whose recorded time
\* is more than 24 hours before now, and leaves every other entry, key and
\* recorded time, as it was.
C21_SweepRemovesExactlyExpired ==
    [][ Prune =>
            /\ DOMAIN processed' =
                   {k \in DOMAIN processed : ~(clock - processed[k] > DEDUP_TTL_MS)}
            /\ \A k \in DOMAIN processed' : processed'[k] = processed[k] ]_vars

\* Two keys were admitted; a sweep removed the one admitted more than 24
\* hours ago and kept the one admitted within the last 24 hours
C21_Witness ==
    /\ Len(deliveries) = 2
    /\ deliveries[1].admitted /\ deliveries[2].admitted
    /\ clock - deliveries[1].at > DEDUP_TTL_MS
    /\ clock - deliveries[2].at <= DEDUP_TTL_MS
    /\ RelayKey(deliveries[1]) # RelayKey(deliveries[2])
    /\ DOMAIN processed = {RelayKey(deliveries[2])}
    /\ processed[RelayKey(deliveries[2])] = deliveries[2].at

\* The deliveries that admitted key k
AdmissionsOf(k) ==
    {i \in 1..Len(deliveries) : deliveries[i].admitted /\ RelayKey(deliveries[i]) = k}

\* The Map of a run of the same attempts in which no sweep ever ran: each
\* admitted key with the time of its last admission
Unswept ==
    [k \in {RelayKey(deliveries[i]) : i \in {j \in 1..Len(deliveries) : deliveries[j].admitted}} |->
        LET times == {deliveries[i].at : i \in AdmissionsOf(k)}
        IN  CHOOSE t \in times : \A u \in times : u <= t]

\* C22: admission does not depend on sweeping: at every instant from now on
\* the duplicate test answers for the swept Map as for the Map of the same
\* attempts never swept, every attempt is decided as that Map decides it, and
\* what a sweep removed is an entry the test treats as absent.
C22_AdmissionIgnoresSweeps ==
    /\ []( /\ \A k \in DOMAIN Unswept : \A now \in RelayInstants :
                 now >= clock =>
                     (isDuplicate(processed, k, now) <=> isDuplicate(Unswept, k, now))
           /\ \A k \in DOMAIN processed :
                 k \in DOMAIN Unswept /\ processed[k] = Unswept[k]
           /\ \A k \in DOMAIN Unswept \ DOMAIN processed :
                 ~isDuplicate(Unswept, k, clock) )
    /\ [][ Len(deliveries') > Len(deliveries) =>
               \A req \in RelayRequests :
                   LET d == deliveries'[Len(deliveries')]
                   IN  (RelayWebhook(req) /\ (d.admitted \/ d.at # NotAttempted)) =>
                           (d.admitted <=> ~isDuplicate(Unswept, RelayKey(req), clock)) ]_vars

\* A sweep removed the entry of a key admitted more than 24 hours before,
\* and an attempt made after the end of that key's window was decided
C22_Witness ==
    /\ Len(deliveries) = 2
    /\ deliveries[1].admitted /\ deliveries[2].admitted
    /\ deliveries[2].at - deliveries[1].at > DEDUP_TTL_MS
    /\ RelayKey(deliveries[1]) \in DOMAIN Unswept \ DOMAIN processed
    /\ RelayKey(deliveries[2]) \in DOMAIN processed

----------------------------------------------------------------------------
(* Determinism claims *)

\* C23: the decision function is deterministic and stateless: calls with the
\* same classification, policy and issue text return the same decision,
\* whatever was called before and whatever the dedup cache and the metrics
\* hold at the call.
C23_SameInputsSameDecision ==
    \A i, j \in 1..Len(decide.calls) :
        ( /\ decide.calls[i].analysis = decide.calls[j].analysis
          /\ decide.calls[i].repoConf = decide.calls[j].repoConf
          /\ decide.calls[i].issue = decide.calls[j].issue )
            => decide.calls[i].result = decide.calls[j].result

----------------------------------------------------------------------------
(* Retry claims *)

Collaborators == {"triageIssue", "postClarification", "spawnRalphForIssue", "notifyTriage"}

TimesCalled(t, fn) == Cardinality({i \in 1..Len(t.calls) : t.calls[i].fn = fn})

\* C24: no external call is retried: every admitted event has one background
\* task, which calls the classifier, the commenter, the fix invoker and the
\* notifier at most once each, and makes no call after a call of its that
\* failed (a call that timed out fails).
C24_NoRetry ==
    /\ DOMAIN tasks = {i \in 1..Len(deliveries) : deliveries[i].admitted}
    /\ \A id \in DOMAIN tasks :
           LET t == tasks[id]
           IN  /\ \A fn \in Collaborators : TimesCalled(t, fn) <= 1
               /\ \A i \in 1..Len(t.outcomes) : t.outcomes[i] # "ok" => Len(t.calls) = i

\* One task ended at its failed classifier call, another at its failed fix
\* invocation, each call made once
C24_Witness ==
    \E a, b \in DOMAIN tasks :
        /\ tasks[a].pc = "rejected" /\ Fns(tasks[a].calls) = <<"triageIssue">>
        /\ tasks[a].outcomes # <<"ok">> /\ Len(tasks[a].outcomes) = 1
        /\ tasks[b].pc = "rejected"
        /\ Fns(tasks[b].calls) = <<"triageIssue", "spawnRalphForIssue">>
        /\ tasks[b].outcomes = <<"ok", "Ralph spawn failed">>

----------------------------------------------------------------------------
(* Metrics claims *)

\* The task called fn and the call succeeded
Succeeded(t, fn) ==
    \E i \in 1..Len(t.outcomes) : t.calls[i].fn = fn /\ t.outcomes[i] = "ok"

TasksDone(fn) == {id \in DOMAIN tasks : Succeeded(tasks[id], fn)}

\* C25 as stated: in every reachable state autoSpawned is the number of
\* events whose fix invocation succeeded, and clarificationsPosted the
\* number of events whose clarification comment was posted.
C25_CountsActionsTaken ==
    /\ metrics.autoSpawned = Cardinality(TasksDone("spawnRalphForIssue"))
    /\ metrics.clarificationsPosted = Cardinality(TasksDone("postClarification"))

\* C25, amended: autoSpawned is the number of events whose fix invocation
\* and whose notification after it both succeeded, clarificationsPosted the
\* number of events whose comment was posted and whose notification after
\* it succeeded; an action taken whose notification is pending or failed is
\* in neither counter.
C25_CountsCompletedActions ==
    /\ metrics.autoSpawned =
           Cardinality(TasksDone("spawnRalphForIssue") \cap TasksDone("notifyTriage"))
    /\ metrics.clarificationsPosted =
           Cardinality(TasksDone("postClarification") \cap TasksDone("notifyTriage"))
    /\ Cardinality(TasksDone("spawnRalphForIssue")) - metrics.autoSpawned =
           Cardinality({id \in TasksDone("spawnRalphForIssue") :
                           tasks[id].pc \in {"notifyTriage", "rejected"}})
    /\ Cardinality(TasksDone("postClarification")) - metrics.clarificationsPosted =
           Cardinality({id \in TasksDone("postClarification") :
                           tasks[id].pc \in {"notifyTriage", "rejected"}})

\* Two fix invocations succeeded; the notification failed after one of them
\* and one spawn is counted
C25_Witness ==
    \E a, b \in TasksDone("spawnRalphForIssue") :
        /\ tasks[a].pc = "rejected"
        /\ tasks[a].error = "Notification failed"
        /\ tasks[b].pc = "resolved"
        /\ metrics.autoSpawned = 1
        /\ metrics.errors = 1

----------------------------------------------------------------------------
(* Key class claims *)

\* The deliveries of the relay that reached the duplicate test
IsRelayAttempt(j) ==
    deliveries[j].admitted \/ deliveries[j].message \in {"Already processed", "Already spawned"}

\* Deliveries of the same class (issue opened, /ralph comment) for the same
\* repository and issue
SameClassAndPair(i, j) ==
    /\ deliveries[i].event = deliveries[j].event
    /\ deliveries[i].repo = deliveries[j].repo
    /\ deliveries[i].number = deliveries[j].number

\* C26: the dedup key includes the action class: an attempt is rejected as
\* a duplicate exactly when an event of the same class for the same
\* (repository, issue) pair was admitted less than 24 hours before it; an
\* admission of the other class for the pair never makes it a duplicate.
C26_KeyIncludesClass ==
    \A j \in 1..Len(deliveries) :
        IsRelayAttempt(j) =>
            (~deliveries[j].admitted <=>
                \E i \in 1..(j - 1) :
                    /\ deliveries[i].admitted
                    /\ SameClassAndPair(i, j)
                    /\ deliveries[j].at - deliveries[i].at < DEDUP_TTL_MS)

\* An issue-opened event and a /ralph comment for the same pair were both
\* admitted within one window
C26_Witness ==
    /\ Len(deliveries) = 2
    /\ deliveries[1].admitted /\ deliveries[2].admitted
    /\ {deliveries[1].event, deliveries[2].event} = {"issues", "issue_comment"}
    /\ deliveries[1].repo = deliveries[2].repo
    /\ deliveries[1].number = deliveries[2].number
    /\ deliveries[2].at - deliveries[1].at < DEDUP_TTL_MS

----------------------------------------------------------------------------
(* Fence claims *)

\* The same classification, or a rejection both times
SameOutcome(p, q) == p.ok = q.ok /\ p.value = q.value

Parsed(wrapper) == decide.parsed[wrapper] # NotParsed

\* C27 as stated: for every classifier text, parsing it inside a json fence
\* or inside a plain fence gives the outcome of parsing it as it is.
C27_FenceTransparent ==
    \A w \in {"json", "plain"} :
        (Parsed("none") /\ Parsed(w)) => SameOutcome(decide.parsed["none"], decide.parsed[w])


\* The text, without the white space around it, begins with a code fence
BeginsWithFence(text) ==
    Trim(text) # <<>> /\ Head(Trim(text)).t \in {"fence", "fence-json"}

\* The text ends in white space that JSON does not allow after a value
EndsInOtherSpace(text) ==
    DropTrailing(text, JsonWhiteSpace) # DropTrailing(text, JsWhiteSpace)

\* C27, amended: for every classifier text that does not itself begin with
\* a code fence and does not end in white space other than JSON's, parsing
\* it inside a json fence or inside a plain fence gives the outcome of
\* parsing it as it is.
C27_FenceTransparentForUnfenced ==
    (~BeginsWithFence(decide.text) /\ ~EndsInOtherSpace(decide.text)) =>
        \A w \in {"json", "plain"} :
            (Parsed("none") /\ Parsed(w)) =>
                SameOutcome(decide.parsed["none"], decide.parsed[w])

\* A valid object between line breaks was parsed as it is and in both
\* fences, to the same classification
C27_Witness ==
    /\ decide.text = <<TokNewline, TokObject(ValidObject), TokNewline>>
    /\ \A w \in Wrappers : Parsed(w) /\ decide.parsed[w].ok
    /\ decide.parsed["json"].value.ralphPrompt = JStr("Fix it")

----------------------------------------------------------------------------
(* Payload screening claims *)

\* The payload lacks repository.name or issue.number
LacksNameOrNumber(req) == req.repo = "" \/ req.number = 0

IsIssueOrComment(req) == req.event \in {"issues", "issue_comment"}

\* An event that the relay would process: an opened issue, or a created
\* comment that is a /ralph command
IsProcessable(req) ==
    \/ req.event = "issues" /\ req.action = "opened"
    \/ req.event = "issue_comment" /\ req.action = "created" /\ IsRalphCommand(req.comment)

\* C28 as stated: a signed issue or comment payload that lacks the
\* repository name or the issue number is rejected with status 400, records
\* no dedup entry and starts no background task.
C28_MalformedRejected ==
    [][ Len(deliveries') > Len(deliveries) =>
            \A req \in ScreenRequests :
                (RelayWebhook(req) /\ CarriesOwnHmac(req) /\ IsIssueOrComment(req)
                     /\ LacksNameOrNumber(req)) =>
                    /\ deliveries'[Len(deliveries')].status = 400
                    /\ processed' = processed
                    /\ tasks' = tasks ]_vars

\* C28, amended: a signed issue-opened payload or /ralph comment-created
\* payload that lacks the repository name or the issue number is rejected
\* with status 400, records no dedup entry and starts no background task; an
\* issue or comment payload that is not such an event is answered 200
\* whether or not it has them, and records and starts nothing either.
C28_MalformedProcessableRejected ==
    [][ Len(deliveries') > Len(deliveries) =>
            \A req \in ScreenRequests :
                (RelayWebhook(req) /\ CarriesOwnHmac(req) /\ IsIssueOrComment(req)
                     /\ LacksNameOrNumber(req)) =>
                    /\ deliveries'[Len(deliveries')].status =
                           IF IsProcessable(req) THEN 400 ELSE 200
                    /\ processed' = processed
                    /\ tasks' = tasks ]_vars

\* An opened issue without its repository name and a /ralph comment without
\* its issue number were both answered 400, and nothing was recorded or
\* started
C28_Witness ==
    /\ Len(deliveries) = 2
    /\ deliveries[1].event = "issues" /\ deliveries[1].action = "opened"
    /\ deliveries[1].repo = "" /\ deliveries[1].status = 400
    /\ deliveries[2].event = "issue_comment" /\ deliveries[2].number = 0
    /\ deliveries[2].comment = RalphToken /\ deliveries[2].status = 400
    /\ processed = <<>>
    /\ tasks = <<>>


\* A request that is no event to process: a ping, an event type other than
\* issues and issue_comment, an issue action other than opened, a comment
\* action other than created
IsIgnoredEvent(req) ==
    \/ req.event \notin {"issues", "issue_comment"}
    \/ req.event = "issues" /\ req.action # "opened"
    \/ req.event = "issue_comment" /\ req.action # "created"

\* C29: a signed request that is no processable event is answered 200,
\* leaves the dedup cache and every counter of the metrics as they were, and
\* starts no background task.
C29_IgnoredEventsChangeNothing ==
    [][ Len(deliveries') > Len(deliveries) =>
            \A req \in ScreenRequests :
                (RelayWebhook(req) /\ CarriesOwnHmac(req) /\ IsIgnoredEvent(req)) =>
                    /\ deliveries'[Len(deliveries')].status = 200
                    /\ deliveries'[Len(deliveries')].message \in
                           {"pong", "Ignoring event", "Ignoring action", "Ignoring comment action"}
                    /\ processed' = processed
                    /\ metrics' = metrics
                    /\ tasks' = tasks ]_vars

\* After an issue was admitted, a ping, a push, a closed issue or a deleted
\* /ralph comment was answered 200 and one admission is all that the cache,
\* the counters and the tasks show
C29_Witness ==
    /\ Len(deliveries) = 2
    /\ deliveries[1].admitted /\ deliveries[1].event = "issues"
    /\ \/ deliveries[2].event \in {"ping", "push"}
       \/ deliveries[2].action \in {"closed", "deleted"}
    /\ deliveries[2].status = 200
    /\ Cardinality(DOMAIN processed) = 1
    /\ DOMAIN tasks = {1}
    /\ metrics.issuesReceived = 1 /\ metrics.issuesSkipped = 0

----------------------------------------------------------------------------
(* C30: the prompt of the fix invoker *)

SpawnedAnalysis == decide.triage.analysis

SpawnedFallback == generateFallbackPrompt(decide.repo, decide.number, SpawnedAnalysis)

HasSpawned == "spawn" \in DOMAIN decide /\ decide.spawn.called

\* C30 as stated: on AUTO_ACT the fix invoker is started with ralphPrompt
\* whenever that field is present (not null), and with the generated fallback
\* block exactly when it is absent (null)
C30_PromptOrFallback ==
    HasSpawned =>
        /\ SpawnedAnalysis.ralphPrompt # JNull =>
               decide.spawn.started /\ decide.spawn.prompt = SpawnedAnalysis.ralphPrompt
        /\ decide.spawn.prompt = SpawnedFallback <=> SpawnedAnalysis.ralphPrompt = JNull

IsNonEmptyString(j) == j.k = "str" /\ j.v[1] # ""

IsNullOrEmptyString(j) == j = JNull \/ j = JStr("")

PiecesOf(text) == {text.v[i] : i \in 1..Len(text.v)}

\* C30 amended: on AUTO_ACT the fix invoker is started with ralphPrompt
\* whenever that field is a non-empty string, and with the generated fallback
\* block, which carries the type, the severity, the reasoning and every
\* acceptance criterion, when the field is null or the empty string
C30_NonEmptyPromptOrFallback ==
    HasSpawned =>
        /\ IsNonEmptyString(SpawnedAnalysis.ralphPrompt) =>
               /\ decide.spawn.started
               /\ decide.spawn.prompt = SpawnedAnalysis.ralphPrompt
        /\ IsNullOrEmptyString(SpawnedAnalysis.ralphPrompt) =>
               /\ decide.spawn.started
               /\ decide.spawn.prompt = SpawnedFallback
               /\ decide.spawn.prompt # SpawnedAnalysis.ralphPrompt
               /\ {SpawnedAnalysis.type, SpawnedAnalysis.severity,
                   JoinPiece(SpawnedAnalysis.reasoning)}
                      \subseteq PiecesOf(decide.spawn.prompt)
               /\ \A i \in 1..Len(SpawnedAnalysis.acceptanceCriteria) :
                      SpawnedAnalysis.acceptanceCriteria[i].v[1]
                          \in PiecesOf(decide.spawn.prompt)

\* The invoker ran for an empty-string prompt with two acceptance criteria
C30_Witness ==
    /\ HasSpawned
    /\ decide.triage.action = "auto-spawn"
    /\ SpawnedAnalysis.ralphPrompt = JStr("")
    /\ Len(SpawnedAnalysis.acceptanceCriteria) = 2
    /\ decide.spawn.started
    /\ decide.spawn.ok
    /\ decide.spawn.prompt = SpawnedFallback

----------------------------------------------------------------------------
(* C31: the skipped and received counters *)

\* The issue-opened events that pass the signature check and carry a
\* repository name and an issue number
OpenedEvents ==
    {req \in Requests \ Forged :
         req.event = "issues" /\ req.action = "opened" /\ req.repo # "" /\ req.number # 0}

IsDisabledOrDuplicate(req) ==
    \/ ~Truthy(getRepoConfig(req.repo), "enabled")
    \/ isAlreadyProcessed(processed, req.repo, req.number, clock)

\* C31: each issue-opened event rejected for a disabled repository or as a
\* duplicate adds exactly one to issuesSkipped, an admitted event adds none,
\* both add exactly one to issuesReceived, and nothing else moves issuesSkipped
C31_SkippedCounted ==
    [][ /\ Len(deliveries') > Len(deliveries) =>
               \A req \in OpenedEvents :
                   Webhook(req) =>
                       /\ metrics'.issuesReceived = metrics.issuesReceived + 1
                       /\ IF IsDisabledOrDuplicate(req)
                          THEN /\ metrics'.issuesSkipped = metrics.issuesSkipped + 1
                               /\ ~deliveries'[Len(deliveries')].admitted
                          ELSE /\ metrics'.issuesSkipped = metrics.issuesSkipped
                               /\ deliveries'[Len(deliveries')].admitted
        /\ metrics'.issuesSkipped # metrics.issuesSkipped =>
               /\ Len(deliveries') > Len(deliveries)
               /\ ~deliveries'[Len(deliveries')].admitted ]_vars

\* An admitted event, a duplicate of it and an event of a disabled
\* repository have been delivered
C31_Witness ==
    /\ Len(deliveries) = 3
    /\ deliveries[1].admitted
    /\ deliveries[2].message = "Already processed"
    /\ deliveries[3].message = "Repo not enabled"
    /\ metrics.issuesReceived = 3
    /\ metrics.issuesSkipped = 2

----------------------------------------------------------------------------
(* C32: events of different pairs do not interfere *)

PairOf(i) == <<deliveries[i].repo, deliveries[i].number>>

\* The dedup Map of a server that received, of the first n deliveries, only
\* the attempts on pair p, at the same times
RECURSIVE SoloMap(_, _)
SoloMap(p, n) ==
    IF n = 0 THEN <<>>
    ELSE LET prev == SoloMap(p, n - 1)
             d == deliveries[n]
         IN  IF PairOf(n) = p /\ IsAttempt(n)
                    /\ ~isAlreadyProcessed(prev, d.repo, d.number, d.at)
             THEN markProcessed(prev, d.repo, d.number, d.at)
             ELSE prev

SoloAdmits(j) ==
    ~isAlreadyProcessed(SoloMap(PairOf(j), j - 1),
                        deliveries[j].repo, deliveries[j].number, deliveries[j].at)

\* C32: each attempt on a pair is answered as a server that saw only that
\* pair's attempts would answer it; a task runs on its own pair and takes the
\* action decided from its own classification; a step of one task changes no
\* other task and no dedup entry, and a delivery changes no running task and
\* no dedup entry of another pair.
C32_PairsIndependent ==
    /\ []( /\ \A j \in 1..Len(deliveries) :
                 IsAttempt(j) => (deliveries[j].admitted <=> SoloAdmits(j))
           /\ \A id \in DOMAIN tasks :
                 LET t == tasks[id]
                 IN  /\ <<t.repo, t.number>> = PairOf(id)
                     /\ t.repoConf = getRepoConfig(t.repo)
                     /\ (Len(t.outcomes) > 0 /\ t.outcomes[1] = "ok") =>
                            /\ t.action = determineAction(t.analysis, t.repo, t.issue, t.repoConf)
                            /\ Len(t.calls) > 1
                            /\ t.calls[2].fn = ExecuteAction(t.action) )
    /\ [][ /\ \A id \in DOMAIN tasks :
                 tasks'[id] # tasks[id] =>
                     /\ \A other \in DOMAIN tasks' \ {id} :
                            other \in DOMAIN tasks /\ tasks'[other] = tasks[other]
                     /\ processed' = processed
                     /\ deliveries' = deliveries
           /\ Len(deliveries') > Len(deliveries) =>
                 LET d == deliveries'[Len(deliveries')]
                 IN  /\ \A id \in DOMAIN tasks : tasks'[id] = tasks[id]
                     /\ \A i \in 1..Len(deliveries) :
                            (PairOf(i) # <<d.repo, d.number>> /\ deliveries[i].admitted) =>
                                isAlreadyProcessed(processed', deliveries[i].repo,
                                                   deliveries[i].number, clock)
                                    = isAlreadyProcessed(processed, deliveries[i].repo,
                                                         deliveries[i].number, clock) ]_vars

\* Two pairs interleaved: the task of the second pair failed, the first
\* pair's redelivery was rejected as a duplicate and its task resolved
C32_Witness ==
    /\ Len(deliveries) = 3
    /\ deliveries[1].admitted /\ deliveries[2].admitted
    /\ PairOf(1) # PairOf(2)
    /\ PairOf(3) = PairOf(1)
    /\ deliveries[3].message = "Already processed"
    /\ tasks[2].pc = "rejected"
    /\ tasks[1].pc = "resolved"

----------------------------------------------------------------------------
(* C33: the hourly sweep bounds the age of the entries *)

AgeOf(map, key, now) == now - map[key]

\* C33: with the sweep running every hour, at every moment no entry is more
\* than 25 hours old, and immediately after a sweep none is more than 24
\* hours old.
C33_CacheTimeBounded ==
    /\ [](\A key \in DOMAIN processed :
              AgeOf(processed, key, clock) <= DEDUP_TTL_MS + SWEEP_INTERVAL_MS)
    /\ [][ HourlySweep =>
               \A key \in DOMAIN processed' :
                   AgeOf(processed', key, clock') <= DEDUP_TTL_MS ]_vars

\* An entry recorded on the hour survived the sweep 24 hours later and is now
\* exactly 25 hours old, at the hour of the sweep that removes it; the other
\* entry, a millisecond younger than 25 hours at the last sweep, is gone
C33_Witness ==
    /\ "sweeps" \in DOMAIN decide
    /\ decide.sweeps = 25
    /\ clock = SweepDue
    /\ Len(deliveries) = 2
    /\ deliveries[1].admitted /\ deliveries[2].admitted
    /\ deliveries[1].at = StartTime + 1
    /\ deliveries[2].at = StartTime + SWEEP_INTERVAL_MS
    /\ DOMAIN processed = {DedupKey(deliveries[2].repo, deliveries[2].number)}
    /\ AgeOf(processed, DedupKey(deliveries[2].repo, deliveries[2].number), clock)
           = DEDUP_TTL_MS + SWEEP_INTERVAL_MS

----------------------------------------------------------------------------
(* C34: the counters *)

\* C34: in every reachable state issuesProcessed + issuesSkipped + errors is
\* at most issuesReceived, and no step decreases a counter.
C34_CountersConsistent ==
    /\ [](metrics.issuesProcessed + metrics.issuesSkipped + metrics.errors
              <= metrics.issuesReceived)
    /\ [][ \A counter \in DOMAIN metrics : metrics'[counter] >= metrics[counter] ]_vars

\* Three events received: one processed, one skipped and one failed
C34_Witness ==
    /\ metrics.issuesReceived = 3
    /\ metrics.issuesProcessed = 1
    /\ metrics.issuesSkipped = 1
    /\ metrics.errors = 1

----------------------------------------------------------------------------
(* C35: every admitted event is counted once, as processed or as an error *)

Finished(id) == id \in DOMAIN tasks /\ tasks[id].pc \in {"resolved", "rejected"}

\* C35: if every collaborator call returns or fails, the task of every
\* admitted event finishes; issuesProcessed counts the tasks that resolved
\* and errors those that rejected, so each finished task is counted in
\* exactly one of the two, once; and a finished task takes no further step.
C35_AdmittedCountedOnce ==
    /\ \A id \in 1..MaxLiveDeliveries :
           (id \in DOMAIN tasks) ~> Finished(id)
    /\ []( /\ metrics.issuesProcessed = Cardinality(TasksAt("resolved"))
           /\ metrics.errors = Cardinality(TasksAt("rejected"))
           /\ DOMAIN tasks = {i \in 1..Len(deliveries) : deliveries[i].admitted} )
    /\ [][ \A id \in DOMAIN tasks : Finished(id) => tasks'[id] = tasks[id] ]_vars

\* Two admitted events, one counted as processed and one as an error
C35_Witness ==
    /\ Cardinality(DOMAIN tasks) = 2
    /\ \A id \in DOMAIN tasks : Finished(id)
    /\ metrics.issuesProcessed = 1
    /\ metrics.errors = 1
    /\ metrics.issuesReceived = 2

----------------------------------------------------------------------------
(* C36: the /ralph path *)

RalphTasks == {id \in DOMAIN tasks : tasks[id].kind = "ralph"}

Notified(t) == \E i \in 1..Len(t.calls) : t.calls[i] = "notifyRalphSpawned"

\* C36: when a spawn settles, success adds one to ralphSpawned, leaves errors
\* and calls notifyRalphSpawned, failure adds one to errors, leaves
\* ralphSpawned and ends the task with no notification; nothing else moves
\* ralphSpawned, which counts the tasks whose notification was started; and
\* a task that was not notified when it ended is never notified.
C36_NotifyAfterSpawn ==
    /\ [][ /\ \A id \in RalphTasks, ok \in BOOLEAN :
                 (tasks[id].pc = "spawnRalph" /\ RelaySettles(id, ok)) =>
                     IF ok
                     THEN /\ metrics'.ralphSpawned = metrics.ralphSpawned + 1
                          /\ metrics'.errors = metrics.errors
                          /\ ~Notified(tasks[id]) /\ Notified(tasks'[id])
                     ELSE /\ metrics'.ralphSpawned = metrics.ralphSpawned
                          /\ metrics'.errors = metrics.errors + 1
                          /\ ~Notified(tasks'[id])
                          /\ tasks'[id].pc = "rejected"
           /\ metrics'.ralphSpawned # metrics.ralphSpawned =>
                 \E id \in RalphTasks :
                     tasks[id].pc = "spawnRalph" /\ tasks'[id].pc = "notifyRalphSpawned"
           /\ \A id \in RalphTasks :
                 tasks[id].pc \in {"resolved", "rejected"} => tasks'[id] = tasks[id] ]_vars
    /\ [](metrics.ralphSpawned = Cardinality({id \in RalphTasks : Notified(tasks[id])}))

\* One /ralph command whose spawn failed and, after its window, one whose
\* spawn succeeded and whose notification was sent
C36_Witness ==
    \E a, b \in RalphTasks :
        /\ tasks[a].pc = "rejected" /\ tasks[a].calls = <<"spawnRalph">>
        /\ tasks[b].pc = "resolved"
        /\ tasks[b].calls = <<"spawnRalph", "notifyRalphSpawned">>
        /\ metrics.ralphSpawned = 1
        /\ metrics.errors = 1

----------------------------------------------------------------------------
(* C37: a failed spawn keeps its dedup slot *)

\* The signed /ralph commands among the requests
RalphCommands ==
    {req \in RelayRequests :
         /\ verifyWebhookSignature(req)
         /\ req.event = "issue_comment" /\ req.action = "created"
         /\ IsRalphCommand(req.comment)}

\* The /ralph tasks that ended with the failure of their spawn
FailedSpawns ==
    {id \in DOMAIN tasks :
         /\ tasks[id].kind = "ralph"
         /\ tasks[id].pc = "rejected"
         /\ tasks[id].calls = <<"spawnRalph">>}

\* C37: a /ralph comment that arrives less than 24 hours after the attempt
\* of a /ralph command on the same pair whose spawn has failed is answered
\* "Already spawned", starts no task and leaves the dedup Map as it was.
C37_FailedSpawnKeepsSlot ==
    [][ Len(deliveries') > Len(deliveries) =>
            \A req \in RalphCommands :
                ( /\ RelayWebhook(req)
                  /\ \E id \in FailedSpawns :
                         /\ tasks[id].repo = req.repo
                         /\ tasks[id].number = req.number
                         /\ clock - deliveries[id].at < DEDUP_TTL_MS ) =>
                    /\ deliveries'[Len(deliveries')].message = "Already spawned"
                    /\ ~deliveries'[Len(deliveries')].admitted
                    /\ tasks' = tasks
                    /\ processed' = processed ]_vars

\* A /ralph command whose spawn failed, and a second /ralph comment on the
\* same pair, late in the window of the first, answered "Already spawned"
C37_Witness ==
    /\ Len(deliveries) = 2
    /\ 1 \in FailedSpawns
    /\ deliveries[2].event = "issue_comment"
    /\ deliveries[2].repo = deliveries[1].repo
    /\ deliveries[2].number = deliveries[1].number
    /\ deliveries[2].message = "Already spawned"
    /\ deliveries[2].at - deliveries[1].at = DEDUP_TTL_MS - 1
    /\ DOMAIN tasks = {1}

----------------------------------------------------------------------------
(* C38: the deployment *)

DeployCommands == <<GitPull.cmd, NpmCi.cmd, Restart.cmd>>

RestartInitiated(t) == \E i \in 1..Len(t.cmds) : t.cmds[i] = Restart.cmd

\* C38: a request starts a deployment only with a valid signature, the event
\* push and the ref refs/heads/main; the commands of a deployment are, in
\* order, git pull, npm ci and the restart; a failed step is the last thing
\* the deployment does and makes it report failure; and the restart is
\* started only after git pull and npm ci both succeeded.
C38_DeployGuardedAndOrdered ==
    /\ [][ /\ Len(deliveries') > Len(deliveries) =>
                 \A req \in DeployRequests :
                     (DeployWebhook(req) /\ DOMAIN tasks' # DOMAIN tasks) =>
                         /\ verifyWebhookSignature(req)
                         /\ req.event = "push"
                         /\ req.ref = "refs/heads/main"
           /\ \A id \in DOMAIN tasks :
                 tasks[id].result = "failure" => tasks'[id] = tasks[id] ]_vars
    /\ [](\A id \in DOMAIN tasks :
              LET t == tasks[id]
              IN  /\ deliveries[id].started
                  /\ t.cmds = SubSeq(DeployCommands, 1, Len(t.cmds))
                  /\ \A i \in 1..Len(t.output) :
                         ~t.output[i].ok =>
                             /\ i = Len(t.output)
                             /\ Len(t.cmds) = i
                             /\ t.result = "failure"
                             /\ t.pc = "done"
                  /\ t.result = "failure" => \E i \in 1..Len(t.output) : ~t.output[i].ok
                  /\ RestartInitiated(t) =>
                         /\ Len(t.output) >= 2
                         /\ t.output[1] = [name |-> "git pull", ok |-> TRUE]
                         /\ t.output[2] = [name |-> "npm ci", ok |-> TRUE])

\* One deployment stopped at a failed npm ci and reported failure, another
\* ran both steps and started the restart
C38_Witness ==
    \E a, b \in DOMAIN tasks :
        /\ tasks[a].result = "failure"
        /\ tasks[a].cmds = <<GitPull.cmd, NpmCi.cmd>>
        /\ tasks[a].output = <<[name |-> "git pull", ok |-> TRUE], [name |-> "npm ci", ok |-> FALSE]>>
        /\ tasks[b].cmds = DeployCommands
        /\ tasks[b].result = "success"
        /\ \A i \in 1..2 : deliveries[i].event = "push" /\ deliveries[i].ref = "refs/heads/main"

----------------------------------------------------------------------------
(* C39: the duplicate test and the stored timestamp *)

====
